---- MODULE Spec2Model ----
(***************************************************************************)
(* SlicerSRep2: the s-rep refinement logic                                 *)
(* (SRepRefinement/Logic/vtkSlicerSRepRefinementLogic.cxx).                *)
(*                                                                         *)
(* One call of vtkSlicerSRepRefinementLogic::Run (the overload returning a *)
(* node) is modelled from the scene-side placeholder down to the three     *)
(* passes of Refiner::Run.  Grids are pointer structures over a heap of    *)
(* spokes so that cloning, shallow spoke copies and in-place spoke updates *)
(* keep the aliasing they have in the code.                                *)
(*                                                                         *)
(* Lengths are fixed-point integers (1 unit = 1e-5); directions are        *)
(* axis-aligned unit vectors; the target surface is the plane x = surfX.   *)
(***************************************************************************)
EXTENDS Integers, Sequences, FiniteSets, TLC

\* ---------------------------------------------------------------- bounds
MaxLines == 2
MaxSteps == 2
MaxIter == 2
MaxInterp == 0
MaxFoldPoints == 4
MaxStepsToCrest == 3
MaxInterpolationLevel == 1

\* ------------------------------------------------------- program constants
\* objective values are decimal numbers digits * 10^exp10
Decimal(digits, exp10) == [digits |-> digits, exp10 |-> exp10]
\* the value EvaluateObjectiveFunction returns when an evaluation fails: 1e10
Sentinel == Decimal(1, 10)
\* epsilon of OptimizeCrestSpokeLengths, in units
Epsilon == 1

\* ------------------------------------------------------ modelling constants
\* radii of the spokes of the caller's grid, in units
InputRadii == {2000}
\* values of initialRegionSize the callers of the model pass, in units
RegionSizeChoices == {1000}
\* the target meshes of the model: the plane x = surfX, with radius of
\* curvature curvRadius (1 / max(|maxC|, |minC|)) at every mesh point
MeshChoices == {[surfX |-> 2000, curvRadius |-> 3000], [surfX |-> 1100, curvRadius |-> 1500]}

UpOrientation == "up"
DownOrientation == "down"
CrestOrientation == "crest"
Orientations == {UpOrientation, DownOrientation, CrestOrientation}

\* ------------------------------------------------------------- vectors
Abs(x) == IF x < 0 THEN -x ELSE x
Sign(x) == IF x < 0 THEN -1 ELSE IF x > 0 THEN 1 ELSE 0
VecAdd(a, b) == <<a[1] + b[1], a[2] + b[2], a[3] + b[3]>>
VecScale(a, k) == <<a[1] * k, a[2] * k, a[3] * k>>
\* magnitude of an axis-aligned vector
VecNorm(a) == Abs(a[1]) + Abs(a[2]) + Abs(a[3])
\* unit vector of an axis-aligned vector
VecUnit(a) == <<Sign(a[1]), Sign(a[2]), Sign(a[3])>>

\* ------------------------------------------------------------- the heap
Regions == {"input", "live", "temp", "refinedUp", "refinedDown"}
AllRefs == Regions \X (0 .. MaxLines - 1) \X (0 .. MaxSteps - 1) \X Orientations
NullRef == <<"null", 0, 0, "none">>
FreeCell == [alloc |-> FALSE, skel |-> <<0, 0, 0>>, dir |-> <<0, 0, 0>>]

\* srep::Spoke: a skeletal point and a direction vector whose magnitude is
\* the radius
MkSpoke(skel, dir) == [alloc |-> TRUE, skel |-> skel, dir |-> dir]
GetRadius(sp) == VecNorm(sp.dir)
GetDirection(sp) == sp.dir
GetBoundaryPoint(sp) == VecAdd(sp.skel, sp.dir)
SetRadius(sp, r) == [sp EXCEPT !.dir = VecScale(VecUnit(sp.dir), r)]
SetSkeletalPoint(sp, p) == [sp EXCEPT !.skel = p]
SetDirectionAndMagnitude(sp, v) == [sp EXCEPT !.dir = v]

\* ------------------------------------------------------------- grids
PointsOf(lines, steps) == (0 .. lines - 1) \X (0 .. steps - 1)
SlotsOf(lines, steps) == (0 .. lines - 1) \X (0 .. steps - 1) \X Orientations
NullGrid == [lines |-> 0, steps |-> 0, sp |-> <<>>]
\* vtkSRepSkeletalPoint::IsCrest: the point owns a crest spoke
IsCrest(g, l, s) == g.sp[<<l, s, CrestOrientation>>] # NullRef
IsEmpty(g) == g.lines = 0
\* value of the spoke a grid holds at (l, s, o)
SpokeAt(h, g, l, s, o) == h[g.sp[<<l, s, o>>]]
Slots(g) == {k \in SlotsOf(g.lines, g.steps) : g.sp[k] # NullRef}
\* the grid as a value: every spoke it owns, by (line, step, orientation)
GridValue(h, g) == [k \in Slots(g) |-> h[g.sp[k]]]

\* the caller's grid: up and down spokes everywhere, a crest spoke at the
\* last step of every line
InitialDir(o) == CASE o = UpOrientation -> <<0, 0, 1>>
                   [] o = DownOrientation -> <<0, 0, -1>>
                   [] OTHER -> <<1, 0, 0>>
InitialSpoke(l, s, o) ==
  MkSpoke(<<0, l, s>>, VecScale(InitialDir(o), CHOOSE r \in InputRadii : TRUE))
InputGrid(lines, steps) ==
  [lines |-> lines, steps |-> steps,
   sp |-> [k \in SlotsOf(lines, steps) |->
             IF k[3] = CrestOrientation /\ k[2] # steps - 1
             THEN NullRef ELSE <<"input", k[1], k[2], k[3]>>]]
InputHeap(lines, steps) ==
  [ref \in AllRefs |->
     IF ref[1] = "input" /\ ref[2] < lines /\ ref[3] < steps
        /\ (ref[4] = CrestOrientation => ref[3] = steps - 1)
     THEN InitialSpoke(ref[2], ref[3], ref[4]) ELSE FreeCell]

\* vtkEllipticalSRep::SmartClone: a deep copy whose spokes live in region reg
CloneGrid(g, reg) ==
  [lines |-> g.lines, steps |-> g.steps,
   sp |-> [k \in DOMAIN g.sp |->
             IF g.sp[k] = NullRef THEN NullRef ELSE <<reg, k[1], k[2], k[3]>>]]
CloneHeap(h, g, reg) ==
  [ref \in AllRefs |->
     IF ref[1] = reg
     THEN IF <<ref[2], ref[3], ref[4]>> \in DOMAIN g.sp /\ g.sp[<<ref[2], ref[3], ref[4]>>] # NullRef
          THEN h[g.sp[<<ref[2], ref[3], ref[4]>>]] ELSE FreeCell
     ELSE h[ref]]
\* releasing a temporary grid frees the spokes nobody else holds
ReleaseRegion(h, reg) == [ref \in AllRefs |-> IF ref[1] = reg THEN FreeCell ELSE h[ref]]

\* ------------------------------------------------------- coefficients
\* GetInitialCoefficients with 1 pushed as the fourth entry
GetInitialCoefficientsRadiusOne(h, g, o) ==
  [i \in 1 .. 4 * g.lines * g.steps |->
     LET p == (i - 1) \div 4
         unitDir == VecUnit(GetDirection(SpokeAt(h, g, p \div g.steps, p % g.steps, o)))
     IN IF (i - 1) % 4 < 3 THEN unitDir[((i - 1) % 4) + 1] ELSE 1]

\* Refiner::GetInitialCoefficients: 4 entries per skeletal point, line-major
\* then step: the unit direction of the spoke and 0
GetInitialCoefficients(h, g, o) ==
  [i \in 1 .. 4 * g.lines * g.steps |->
     LET p == (i - 1) \div 4
         j == (i - 1) % 4
         unitDir == VecUnit(GetDirection(SpokeAt(h, g, p \div g.steps, p % g.steps, o)))
     IN IF j < 3 THEN unitDir[j + 1] ELSE 0]

\* exp(c) * r for the coefficients of the model; one coefficient unit is ln 2
ExpTimes(c, r) == IF c >= 0 THEN (2 ^ c) * r ELSE r \div (2 ^ (-c))

\* Refine with the coefficient index running step-major
ApplyCoefficientsStepMajor(h, g, coeff, spokeType) ==
  [ref \in AllRefs |->
     IF \E k \in PointsOf(g.lines, g.steps) : g.sp[<<k[1], k[2], spokeType>>] = ref
     THEN LET k == CHOOSE k \in PointsOf(g.lines, g.steps) : g.sp[<<k[1], k[2], spokeType>>] = ref
              c == 4 * (k[2] * g.lines + k[1])
          IN SetDirectionAndMagnitude(h[ref],
               VecScale(<<coeff[c + 1], coeff[c + 2], coeff[c + 3]>>,
                        ExpTimes(coeff[c + 4], GetRadius(h[ref]))))
     ELSE h[ref]]

\* the body of Refine's loops: every spoke of orientation spokeType of g is
\* rebuilt from its 4 coefficients; c is the running coefficient index
ApplyCoefficients(h, g, coeff, spokeType) ==
  LET NewSpoke(l, s) ==
        LET spoke == SpokeAt(h, g, l, s, spokeType)
            c == 4 * (l * g.steps + s)
            oldRadius == GetRadius(spoke)
            oldUnitDir == VecUnit(GetDirection(spoke))
            newUnitDir == <<coeff[c + 1], coeff[c + 2], coeff[c + 3]>>
            newRadius == ExpTimes(coeff[c + 4], oldRadius)
        IN IF oldRadius # newRadius \/ oldUnitDir # newUnitDir
           THEN SetDirectionAndMagnitude(spoke, VecScale(newUnitDir, newRadius))
           ELSE spoke
  IN [ref \in AllRefs |->
        IF \E k \in PointsOf(g.lines, g.steps) : g.sp[<<k[1], k[2], spokeType>>] = ref
        THEN LET k == CHOOSE k \in PointsOf(g.lines, g.steps) : g.sp[<<k[1], k[2], spokeType>>] = ref
             IN NewSpoke(k[1], k[2])
        ELSE h[ref]]

\* Refine without the clone: the coefficients are applied to srep itself
RefineInPlace(h, g, coeff, spokeType, reg) ==
  [grid |-> g, heap |-> ApplyCoefficients(h, g, coeff, spokeType)]

\* Refiner::Refine: clone srep (into region reg) and rebuild the clone's
\* spokes of orientation spokeType from coeff
Refine(h, g, coeff, spokeType, reg) ==
  LET clone == CloneGrid(g, reg)
  IN [grid |-> clone, heap |-> ApplyCoefficients(CloneHeap(h, g, reg), clone, coeff, spokeType)]

\* the coefficient vectors the minimizer tries: the initial one, one that
\* turns and doubles every spoke, one that halves the spoke of point (0, 0)
AltDir == <<0, 1, 0>>
TrialCoefficients(x0) ==
  { x0,
    [i \in DOMAIN x0 |-> IF (i - 1) % 4 < 3 THEN AltDir[((i - 1) % 4) + 1] ELSE 1],
    [i \in DOMAIN x0 |-> IF i = 4 THEN -1 ELSE x0[i]] }

\* ------------------------------------------------- target surface oracles
\* vtkImplicitPolyDataDistance::FunctionValue for the plane x = surfX
ImplicitDistance(point, surfX) == point[1] - surfX

\* L0 of the candidate: the sum of squared distances of the boundary points
\* of orientation spokeType
RECURSIVE SumDistSquared(_, _, _, _, _)
SumDistSquared(h, g, spokeType, surfX, todo) ==
  IF todo = {} THEN 0
  ELSE LET k == CHOOSE k \in todo : TRUE
           d == ImplicitDistance(GetBoundaryPoint(SpokeAt(h, g, k[1], k[2], spokeType)), surfX)
       IN d * d + SumDistSquared(h, g, spokeType, surfX, todo \ {k})

\* ------------------------------------------------ crest length correction
\* the test on the signed distance compared exactly against 0
OnSurfaceExactly(dist) == dist = 0

\* if (abs(dist) <= epsilon) break;
OnSurface(dist) == Abs(dist) <= Epsilon

\* one iteration of the for loop of OptimizeCrestSpokeLengths that does not
\* break: the radius handed to SetRadius, the spoke after it, the distance
\* queried for the new boundary point (which becomes oldDist) and the step size
CrestLengthIteration(spoke, dist, thisStepSize, surfX) ==
  LET radius == IF dist > 0 THEN GetRadius(spoke) - thisStepSize
                ELSE GetRadius(spoke) + thisStepSize
      moved == SetRadius(spoke, radius)
      newDist == ImplicitDistance(GetBoundaryPoint(moved), surfX)
  IN [radius |-> radius, spoke |-> moved, dist |-> newDist,
      thisStepSize |-> IF dist * newDist < 0 THEN thisStepSize \div 10 ELSE thisStepSize]

\* the loop of OptimizeCrestSpokeLengths for one crest spoke, from iteration i
RECURSIVE CrestLengthLoop(_, _, _, _, _, _)
CrestLengthLoop(spoke, dist, thisStepSize, i, maxIter, surfX) ==
  IF i >= maxIter \/ OnSurface(dist) THEN spoke
  ELSE LET it == CrestLengthIteration(spoke, dist, thisStepSize, surfX)
       IN CrestLengthLoop(it.spoke, it.dist, it.thisStepSize, i + 1, maxIter, surfX)

OptimizeCrestSpoke(spoke, stepSize, maxIter, surfX) ==
  CrestLengthLoop(spoke, ImplicitDistance(GetBoundaryPoint(spoke), surfX), stepSize, 0, maxIter, surfX)

\* the curvature-based correction of one crest spoke, rCrest being
\* 1 / max(|maxC|, |minC|) at the mesh point nearest its boundary point
CorrectCrestSpoke(spoke, rCrest) ==
  LET rDiff == GetRadius(spoke) - rCrest
      unitDir == VecUnit(GetDirection(spoke))
  IN IF rDiff <= 0 THEN spoke
     ELSE SetRadius(SetSkeletalPoint(spoke, VecAdd(spoke.skel, VecScale(unitDir, rDiff))), rCrest)

\* ------------------------------------------------------------- the state
VARIABLES
  pc,                        \* position in the call
  args,                      \* the arguments of the call and the scene it runs in
  scene,                     \* the nodes of the MRML scene
  destination,               \* the placeholder node Run adds
  destSRep,                  \* the grid set on the destination node
  error,                     \* the exception the call ended with
  heap,                      \* the spokes
  m_srep,                    \* Refiner: the live grid
  m_built,                   \* Refiner: the members built from the mesh
  m_flattenedUpCoeff,
  m_flattenedDownCoeff,
  m_currentCoeff,
  m_iteration,
  m_totalProgressIterations,
  m_progressCallback,
  progress,                  \* the values the progress callback was called with
  stageIdx,                  \* the stage of Refiner::Run in progress
  stageLog,                  \* the stages started and ended so far
  stageBase,                 \* the value of the live grid at the start of each stage
  nEvals,                    \* evaluations made by the running min_newuoa call
  evalLog,                   \* the evaluations of the running min_newuoa call
  cursor,                    \* position of the crest loops over (line, step)
  callerMutated              \* the caller has changed the returned grid

\* the functions and classes that are also run on their own, each with the
\* locals of its call
VARIABLES
  crestLoop,                 \* the inner loop of OptimizeCrestSpokeLengths on one crest spoke
  refineCall,                \* Refine's computation of one spoke's new radius
  points,                    \* Point3d objects and the outcome of the last operation on them
  fieldCall,                 \* ConvertPolyDataToImageData and the bounds transform
  creator,                   \* GenerateSRep: the EigenSRep and the grid built from it
  crestPass,                 \* OptimizeCrestSpokeLengths over a whole grid
  sampling,                  \* the voxel indices at which the fields are sampled
  rsrad,                     \* ComputeRSradPenalty and its finite differences
  runForward                 \* vtkSlicerSRepCreatorLogic::RunForward

mainVars == <<pc, args, scene, destination, destSRep, error, heap, m_srep, m_built,
              m_flattenedUpCoeff, m_flattenedDownCoeff, m_currentCoeff, m_iteration,
              m_totalProgressIterations, m_progressCallback, progress, stageIdx,
              stageLog, stageBase, nEvals, evalLog, cursor, callerMutated>>
unitVars == <<crestLoop, refineCall, points, fieldCall, creator>>
passVars == <<crestPass, sampling, rsrad, runForward>>
vars == <<mainVars, unitVars, passVars>>

\* a part of the program that the specification at hand does not run
Off == "off"
UnitsOff ==
  /\ crestLoop = Off /\ refineCall = Off /\ points = Off /\ fieldCall = Off /\ creator = Off
  /\ crestPass = Off /\ sampling = Off /\ rsrad = Off /\ runForward = Off
MainOff ==
  /\ pc = Off /\ args = Off /\ scene = {} /\ destination = Off /\ destSRep = Off
  /\ error = Off /\ heap = Off /\ m_srep = Off /\ m_built = {}
  /\ m_flattenedUpCoeff = <<>> /\ m_flattenedDownCoeff = <<>> /\ m_currentCoeff = Off
  /\ m_iteration = 0 /\ m_totalProgressIterations = 0 /\ m_progressCallback = FALSE
  /\ progress = <<>> /\ stageIdx = 0 /\ stageLog = <<>> /\ stageBase = <<>>
  /\ nEvals = 0 /\ evalLog = <<>> /\ cursor = 0 /\ callerMutated = FALSE

refinerVars == <<m_srep, m_built, m_flattenedUpCoeff, m_flattenedDownCoeff,
                 m_currentCoeff, m_iteration, m_totalProgressIterations,
                 m_progressCallback>>
runVars == <<progress, stageIdx, stageLog, stageBase, nEvals, evalLog, cursor>>

SceneBefore == {"modelNode", "srepNode"}
NewNode == "refinedSRepNode"
NoNode == "nullptr"
NoError == [kind |-> "none", site |-> "none"]
Fields == {"masterBounds", "distanceField", "gradientField", "transform"}

\* the caller's grid of the call
InputSRep == InputGrid(args.lines, args.steps)

Init ==
  /\ pc = "idle"
  /\ args \in {a \in [scene : BOOLEAN, model : BOOLEAN, polyData : BOOLEAN,
                      srepNode : {"null", "nullSRep", "ok"},
                      lines : 0 .. MaxLines, steps : 0 .. MaxSteps,
                      initialRegionSize : RegionSizeChoices,
                      maxIterations : 0 .. MaxIter,
                      interpolationLevel : -1 .. MaxInterp,
                      mesh : MeshChoices] :
                 (a.lines = 0) <=> (a.steps = 0)}
  /\ scene = SceneBefore
  /\ destination = NoNode
  /\ destSRep = NullGrid
  /\ error = NoError
  /\ heap = InputHeap(args.lines, args.steps)
  /\ m_srep = NullGrid
  /\ m_built = {}
  /\ m_flattenedUpCoeff = <<>>
  /\ m_flattenedDownCoeff = <<>>
  /\ m_currentCoeff = "nullptr"
  /\ m_iteration = 0
  /\ m_totalProgressIterations = 0
  /\ m_progressCallback = FALSE
  /\ progress = <<>>
  /\ stageIdx = 0
  /\ stageLog = <<>>
  /\ stageBase = <<>>
  /\ nEvals = 0
  /\ evalLog = <<>>
  /\ cursor = 0
  /\ callerMutated = FALSE
  /\ UnitsOff

\* ------------------------------------------------------ error propagation
\* a catch block that only rethrows
RunCatchKeepsNode(sc, dest) == sc

\* the catch block of the node-returning Run: the placeholder leaves the scene
RunCatch(sc, dest) == sc \ {dest}

\* an exception thrown at site propagates out of the call
Throw(kind, site) ==
  /\ error' = [kind |-> kind, site |-> site]
  /\ scene' = RunCatch(scene, destination)
  /\ pc' = "failed"

\* ------------------------------------------------------------ entry point
\* vtkSlicerSRepRefinementLogic::Run returning a node, up to its call of the
\* overload that fills the destination
RunReturningNode ==
  /\ pc = "idle"
  /\ UNCHANGED <<unitVars, passVars>>
  /\ IF ~args.scene
     THEN /\ error' = [kind |-> "runtime_error", site |-> "Run"]
          /\ pc' = "failed"
          /\ UNCHANGED <<scene, destination>>
     ELSE /\ scene' = scene \cup {NewNode}
          /\ destination' = NewNode
          /\ pc' = "validate"
          /\ UNCHANGED error
  /\ UNCHANGED <<args, destSRep, heap, refinerVars, runVars, callerMutated>>

\* the checks without the one on maxIterations
ValidationErrorNoIterationCheck(a) ==
  IF ~a.model THEN "null model"
  ELSE IF a.srepNode # "ok" \/ a.lines = 0 THEN "null srep"
  ELSE IF a.interpolationLevel < 0 THEN "negative interpolation level"
  ELSE "none"

\* the argument checks of Run, in order; "none" when all pass
ValidationError(a) ==
  IF ~a.model THEN "null model"
  ELSE IF a.srepNode # "ok" \/ a.lines = 0 THEN "null srep"
  ELSE IF a.maxIterations < 1 THEN "must have at least one iteration"
  ELSE IF a.interpolationLevel < 0 THEN "negative interpolation level"
  ELSE "none"

RunValidate ==
  /\ pc = "validate"
  /\ UNCHANGED <<unitVars, passVars>>
  /\ IF ValidationError(args) # "none"
     THEN Throw("invalid_argument", "Run")
     ELSE /\ pc' = "construct"
          /\ UNCHANGED <<scene, error>>
  /\ UNCHANGED <<args, destination, destSRep, heap, refinerVars, runVars, callerMutated>>

\* ------------------------------------------------------------ the Refiner
\* the live grid left empty instead of cloned
RefinerCloneEmpty(h, g) == [grid |-> NullGrid, heap |-> h]

\* the live grid sharing the caller's grid instead of cloning it
RefinerCloneAlias(h, g) == [grid |-> g, heap |-> h]

\* m_srep(srep.SmartClone())
RefinerClone(h, g) == [grid |-> CloneGrid(g, "live"), heap |-> CloneHeap(h, g, "live")]

\* the total counted as three passes of maxIterations
TotalProgressIterationsThreePasses(maxIterations, g) == 3 * maxIterations + 2 * g.lines

\* m_totalProgressIterations(2 * m_maxIterations + 2 * m_srep->GetNumberOfLines())
TotalProgressIterations(maxIterations, g) == 2 * maxIterations + 2 * g.lines

\* RefineSRep up to Run: the Refiner's constructor and SetProgressCallback
ConstructRefiner ==
  /\ pc = "construct"
  /\ UNCHANGED <<unitVars, passVars>>
  /\ LET cl == RefinerClone(heap, InputSRep)
     IN IF ~args.polyData
        THEN \* ComputeMasterBounds throws; the members built so far are destroyed
             /\ Throw("invalid_argument", "ComputeMasterBounds")
             /\ UNCHANGED <<heap, refinerVars>>
        ELSE \E fieldsBuilt \in BOOLEAN :
               IF ~fieldsBuilt
               THEN /\ Throw("runtime_error", "CreateAntiAliasSignedDistanceMap")
                    /\ m_built' = {"masterBounds"}
                    /\ UNCHANGED <<heap, m_srep, m_flattenedUpCoeff, m_flattenedDownCoeff,
                                   m_currentCoeff, m_iteration, m_totalProgressIterations,
                                   m_progressCallback>>
               ELSE /\ heap' = cl.heap
                    /\ m_srep' = cl.grid
                    /\ m_built' = Fields
                    /\ m_flattenedUpCoeff' = GetInitialCoefficients(cl.heap, cl.grid, UpOrientation)
                    /\ m_flattenedDownCoeff' = GetInitialCoefficients(cl.heap, cl.grid, DownOrientation)
                    /\ m_currentCoeff' = "nullptr"
                    /\ m_iteration' = 0
                    /\ m_totalProgressIterations' = TotalProgressIterations(args.maxIterations, cl.grid)
                    /\ m_progressCallback' = TRUE
                    /\ pc' = "run"
                    /\ UNCHANGED <<scene, error>>
  /\ UNCHANGED <<args, destination, destSRep, runVars, callerMutated>>

\* ------------------------------------------------------------ Refiner::Run
\* the order in which Run calls RefineSpokes
\* Run with the up and down passes called in the other order
StageOrderDownFirst == <<DownOrientation, UpOrientation, CrestOrientation>>

StageOrder == <<UpOrientation, DownOrientation, CrestOrientation>>

\* Run without the multiples of maxIterations at the stage boundaries
StageStartIterationZero(i, maxIterations) == 0

\* m_iteration at the start of the stage that follows i finished stages
StageStartIteration(i, maxIterations) == i * maxIterations

\* IncrementIteration's ++m_iteration
IncrementedIteration(it) == it + 1

\* ReportProgress: the callback, when installed, receives m_iteration / m_total
ReportProgress(prog, it, tag) ==
  IF m_progressCallback
  THEN Append(prog, [num |-> it, den |-> m_totalProgressIterations, at |-> tag])
  ELSE prog

\* Run between two stages: i stages have ended.  Either the next stage is
\* entered (counter reset, progress reported) or Run returns m_srep, which
\* the caller sets on the destination node.
AfterStage(i) ==
  IF i < Len(StageOrder)
  THEN /\ m_iteration' = StageStartIteration(i, args.maxIterations)
       /\ progress' = ReportProgress(progress, StageStartIteration(i, args.maxIterations),
                                     <<"start", StageOrder[i + 1]>>)
       /\ stageLog' = (IF i = 0 THEN stageLog ELSE Append(stageLog, <<"end", StageOrder[i]>>))
                         \o << <<"start", StageOrder[i + 1]>> >>
       /\ stageBase' = Append(stageBase, GridValue(heap', m_srep'))
       /\ stageIdx' = i + 1
       /\ pc' = IF StageOrder[i + 1] = CrestOrientation THEN "CrestLength" ELSE "MinNewuoa"
       /\ m_currentCoeff' = IF StageOrder[i + 1] = CrestOrientation
                            THEN m_currentCoeff ELSE StageOrder[i + 1]
       /\ nEvals' = 0
       /\ evalLog' = <<>>
       /\ cursor' = 0
       /\ UNCHANGED destSRep
  ELSE /\ m_iteration' = m_totalProgressIterations
       /\ stageLog' = Append(stageLog, <<"end", StageOrder[i]>>)
       /\ destSRep' = m_srep'
       /\ pc' = "done"
       /\ UNCHANGED <<progress, stageIdx, stageBase, m_currentCoeff, nEvals, evalLog, cursor>>

\* Refiner::Run from its entry to the first RefineSpokes call
RefinerRun ==
  /\ pc = "run"
  /\ UNCHANGED <<unitVars, passVars>>
  /\ UNCHANGED <<m_srep, heap>>
  /\ IF ~IsEmpty(m_srep)
     THEN AfterStage(0)
     ELSE /\ destSRep' = m_srep
          /\ pc' = "done"
          /\ UNCHANGED <<m_iteration, m_currentCoeff, runVars>>
  /\ UNCHANGED <<args, scene, destination, error, m_built, m_flattenedUpCoeff,
                 m_flattenedDownCoeff, m_totalProgressIterations, m_progressCallback,
                 callerMutated>>

CurrentType == StageOrder[stageIdx]
CurrentCoeff == IF m_currentCoeff = UpOrientation THEN m_flattenedUpCoeff ELSE m_flattenedDownCoeff

\* what an evaluation can fail in: nothing, one of its computations (grid
\* reconstruction, interpolation, field sampling, penalty), the callback
Faults == {"none", "evaluation", "callback"}

\* an evaluation without the try block: the failure reaches min_newuoa
EvaluationResultNoCatch(fault, val) ==
  [escaped |-> fault # "none", value |-> Decimal(val, 0)]

\* EvaluateObjectiveFunction's exception handling: a failed evaluation
\* returns the sentinel to the minimizer
EvaluationResult(fault, val) ==
  IF fault = "none" THEN [escaped |-> FALSE, value |-> Decimal(val, 0)]
  ELSE [escaped |-> FALSE, value |-> Sentinel]

\* one objective evaluation requested by min_newuoa, which has written its
\* trial vector into the coefficient array
EvaluateObjectiveFunction ==
  /\ pc = "MinNewuoa"
  /\ UNCHANGED <<unitVars, passVars>>
  /\ nEvals < args.maxIterations
  /\ \E coeff \in TrialCoefficients(GetInitialCoefficients(heap, m_srep, CurrentType)),
        fault \in Faults :
       LET tempSRep == Refine(heap, m_srep, coeff, CurrentType, "temp")
           candidate == [k \in PointsOf(tempSRep.grid.lines, tempSRep.grid.steps) |->
                           SpokeAt(tempSRep.heap, tempSRep.grid, k[1], k[2], CurrentType)]
           val == SumDistSquared(tempSRep.heap, tempSRep.grid, CurrentType, args.mesh.surfX,
                                 PointsOf(tempSRep.grid.lines, tempSRep.grid.steps))
           res == EvaluationResult(fault, val)
           incremented == fault \in {"none", "callback"}
       IN /\ heap' = ReleaseRegion(tempSRep.heap, "temp")
          /\ IF m_currentCoeff = UpOrientation
             THEN m_flattenedUpCoeff' = coeff /\ UNCHANGED m_flattenedDownCoeff
             ELSE m_flattenedDownCoeff' = coeff /\ UNCHANGED m_flattenedUpCoeff
          /\ m_iteration' = IF incremented THEN IncrementedIteration(m_iteration) ELSE m_iteration
          /\ progress' = IF incremented
                         THEN ReportProgress(progress, IncrementedIteration(m_iteration),
                                             <<"eval", CurrentType>>)
                         ELSE progress
          /\ evalLog' = Append(evalLog, [spokeType |-> CurrentType, coeff |-> coeff,
                                         candidate |-> candidate, fault |-> fault,
                                         value |-> res.value])
          /\ IF res.escaped
             THEN Throw("runtime_error", "EvaluateObjectiveFunction") /\ UNCHANGED nEvals
             ELSE nEvals' = nEvals + 1 /\ UNCHANGED <<pc, scene, error>>
  /\ UNCHANGED <<args, destination, destSRep, m_srep, m_built, m_currentCoeff,
                 m_totalProgressIterations, m_progressCallback, stageIdx, stageLog,
                 stageBase, cursor, callerMutated>>

\* the copy loop storing the refined spokes under the opposite orientation
CommitSpokesOtherOrientation(live, refined, spokeType) ==
  LET other == IF spokeType = UpOrientation THEN DownOrientation ELSE UpOrientation
  IN [live EXCEPT !.sp = [k \in DOMAIN live.sp |->
                            IF k[3] = other THEN refined.sp[<<k[1], k[2], spokeType>>]
                            ELSE live.sp[k]]]

\* the copy loop of RefineUpDownSpokes: the live grid takes the refined
\* grid's spokes of orientation spokeType (shallow copies)
CommitSpokes(live, refined, spokeType) ==
  [live EXCEPT !.sp = [k \in DOMAIN live.sp |->
                         IF k[3] = spokeType THEN refined.sp[k] ELSE live.sp[k]]]

\* refinedSRep goes away: its spokes that the live grid did not take are freed
ReleaseUnshared(h, reg, live) ==
  [ref \in AllRefs |->
     IF ref[1] = reg /\ ~(\E k \in DOMAIN live.sp : live.sp[k] = ref) THEN FreeCell ELSE h[ref]]

\* RefineUpDownSpokes after min_newuoa has returned, and Run up to the next
\* RefineSpokes call
FinishRefineUpDown ==
  /\ pc = "MinNewuoa"
  /\ UNCHANGED <<unitVars, passVars>>
  /\ LET reg == IF CurrentType = UpOrientation THEN "refinedUp" ELSE "refinedDown"
         refinedSRep == Refine(heap, m_srep, CurrentCoeff, CurrentType, reg)
     IN IF m_srep.lines # refinedSRep.grid.lines \/ m_srep.steps # refinedSRep.grid.steps
        THEN /\ Throw("runtime_error", "RefineUpDownSpokes")
             /\ UNCHANGED <<heap, m_srep, m_iteration, m_currentCoeff, destSRep, runVars>>
        ELSE /\ m_srep' = CommitSpokes(m_srep, refinedSRep.grid, CurrentType)
             /\ heap' = ReleaseUnshared(refinedSRep.heap, reg, m_srep')
             /\ AfterStage(stageIdx)
             /\ UNCHANGED <<scene, error>>
  /\ UNCHANGED <<args, destination, m_built, m_flattenedUpCoeff, m_flattenedDownCoeff,
                 m_totalProgressIterations, m_progressCallback, callerMutated>>

\* ------------------------------------------------------- RefineCrestSpokes
CursorLine == cursor \div m_srep.steps
CursorStep == cursor % m_srep.steps
NumPoints == m_srep.lines * m_srep.steps

\* one iteration of the loops of OptimizeCrestSpokeLengths over (l, s)
CrestLengthVisit ==
  /\ pc = "CrestLength"
  /\ UNCHANGED <<unitVars, passVars>>
  /\ cursor < NumPoints
  /\ IF IsCrest(m_srep, CursorLine, CursorStep)
     THEN /\ m_iteration' = IncrementedIteration(m_iteration)
          /\ progress' = ReportProgress(progress, IncrementedIteration(m_iteration),
                                        <<"crest", "length">>)
          /\ heap' = [heap EXCEPT ![m_srep.sp[<<CursorLine, CursorStep, CrestOrientation>>]] =
                        OptimizeCrestSpoke(@, args.initialRegionSize, args.maxIterations,
                                           args.mesh.surfX)]
     ELSE UNCHANGED <<m_iteration, progress, heap>>
  /\ cursor' = cursor + 1
  /\ UNCHANGED <<pc, args, scene, destination, destSRep, error, m_srep, m_built,
                 m_flattenedUpCoeff, m_flattenedDownCoeff, m_currentCoeff,
                 m_totalProgressIterations, m_progressCallback, stageIdx, stageLog,
                 stageBase, nEvals, evalLog, callerMutated>>

\* RefineCrestSpokes between its two passes: the curvature arrays of the mesh
\* are computed, and a missing array is an error
ComputeCurvatures ==
  /\ pc = "CrestLength"
  /\ UNCHANGED <<unitVars, passVars>>
  /\ cursor = NumPoints
  /\ \E arraysFound \in BOOLEAN :
       IF arraysFound
       THEN /\ pc' = "CrestCurvature"
            /\ cursor' = 0
            /\ UNCHANGED <<scene, error>>
       ELSE /\ Throw("runtime_error", "RefineCrestSpokes")
            /\ UNCHANGED cursor
  /\ UNCHANGED <<args, destination, destSRep, heap, refinerVars, progress, stageIdx,
                 stageLog, stageBase, nEvals, evalLog, callerMutated>>

\* one iteration of the curvature-correction loops of RefineCrestSpokes
CrestCurvatureVisit ==
  /\ pc = "CrestCurvature"
  /\ UNCHANGED <<unitVars, passVars>>
  /\ cursor < NumPoints
  /\ IF IsCrest(m_srep, CursorLine, CursorStep)
     THEN /\ m_iteration' = IncrementedIteration(m_iteration)
          /\ progress' = ReportProgress(progress, IncrementedIteration(m_iteration),
                                        <<"crest", "curvature">>)
          /\ heap' = [heap EXCEPT ![m_srep.sp[<<CursorLine, CursorStep, CrestOrientation>>]] =
                        CorrectCrestSpoke(@, args.mesh.curvRadius)]
     ELSE UNCHANGED <<m_iteration, progress, heap>>
  /\ cursor' = cursor + 1
  /\ UNCHANGED <<pc, args, scene, destination, destSRep, error, m_srep, m_built,
                 m_flattenedUpCoeff, m_flattenedDownCoeff, m_currentCoeff,
                 m_totalProgressIterations, m_progressCallback, stageIdx, stageLog,
                 stageBase, nEvals, evalLog, callerMutated>>

\* RefineCrestSpokes returns, and Run continues after it
FinishRefineCrest ==
  /\ pc = "CrestCurvature"
  /\ UNCHANGED <<unitVars, passVars>>
  /\ cursor = NumPoints
  /\ UNCHANGED <<m_srep, heap>>
  /\ AfterStage(stageIdx)
  /\ UNCHANGED <<args, scene, destination, error, m_built, m_flattenedUpCoeff,
                 m_flattenedDownCoeff, m_totalProgressIterations, m_progressCallback,
                 callerMutated>>

\* ------------------------------------------------------------- the caller
\* after the call the caller changes a spoke of the grid it was given back
CallerMutatesResult ==
  /\ pc = "done"
  /\ UNCHANGED <<unitVars, passVars>>
  /\ ~callerMutated
  /\ ~IsEmpty(destSRep)
  /\ \E o \in {UpOrientation, DownOrientation} :
       heap' = [heap EXCEPT ![destSRep.sp[<<0, 0, o>>]] = SetRadius(@, GetRadius(@) + 1)]
  /\ callerMutated' = TRUE
  /\ UNCHANGED <<pc, args, scene, destination, destSRep, error, refinerVars, runVars>>

Next ==
  \/ RunReturningNode
  \/ RunValidate
  \/ ConstructRefiner
  \/ RefinerRun
  \/ EvaluateObjectiveFunction
  \/ FinishRefineUpDown
  \/ CrestLengthVisit
  \/ ComputeCurvatures
  \/ CrestCurvatureVisit
  \/ FinishRefineCrest
  \/ CallerMutatesResult

Spec == Init /\ [][Next]_vars

\* ================================== OptimizeCrestSpokeLengths on one spoke
\* the inner loop of OptimizeCrestSpokeLengths run on one crest spoke, one
\* iteration at a time
\* radii of the crest spoke, step sizes and surfaces x = surfX, in units: the
\* boundary point starts on the surface, within epsilon of it, outside or inside
CrestRadii == {500, 2500}
CrestStepSizes == {1000, 3000}
CrestSurfaces == {200, 499, 500, 2400, 2501, 2503, 4000}

\* the locals of the loop before its first iteration
CrestLoopEntry(spoke, stepSize, maxIter, surfX) ==
  LET dist == ImplicitDistance(GetBoundaryPoint(spoke), surfX)
  IN [pc |-> "for", stepSize |-> stepSize, maxIter |-> maxIter, surfX |-> surfX,
      first |-> spoke, spoke |-> spoke, radius |-> GetRadius(spoke),
      dist |-> dist, oldDist |-> dist, thisStepSize |-> stepSize, i |-> 0]

CrestLoopInit ==
  /\ MainOff
  /\ refineCall = Off /\ points = Off /\ fieldCall = Off /\ creator = Off
  /\ crestPass = Off /\ sampling = Off /\ rsrad = Off /\ runForward = Off
  /\ \E r \in CrestRadii, stepSize \in CrestStepSizes, maxIter \in 0 .. MaxIter,
        surfX \in CrestSurfaces :
       crestLoop = CrestLoopEntry(MkSpoke(<<0, 0, 0>>, <<r, 0, 0>>), stepSize, maxIter, surfX)

\* i < maxIter fails: the loop is left
CrestLoopExit ==
  /\ crestLoop.pc = "for"
  /\ crestLoop.i >= crestLoop.maxIter
  /\ crestLoop' = [crestLoop EXCEPT !.pc = "done"]
  /\ UNCHANGED <<mainVars, refineCall, points, fieldCall, creator, passVars>>

\* the boundary point is on the surface: break
CrestLoopBreak ==
  /\ crestLoop.pc = "for"
  /\ crestLoop.i < crestLoop.maxIter
  /\ OnSurface(crestLoop.dist)
  /\ crestLoop' = [crestLoop EXCEPT !.pc = "done"]
  /\ UNCHANGED <<mainVars, refineCall, points, fieldCall, creator, passVars>>

\* one iteration that moves the spoke
CrestLoopIterate ==
  /\ crestLoop.pc = "for"
  /\ crestLoop.i < crestLoop.maxIter
  /\ ~OnSurface(crestLoop.dist)
  /\ LET it == CrestLengthIteration(crestLoop.spoke, crestLoop.dist, crestLoop.thisStepSize,
                                    crestLoop.surfX)
     IN crestLoop' = [crestLoop EXCEPT !.spoke = it.spoke, !.radius = it.radius,
                                       !.dist = it.dist, !.oldDist = it.dist,
                                       !.thisStepSize = it.thisStepSize, !.i = @ + 1]
  /\ UNCHANGED <<mainVars, refineCall, points, fieldCall, creator, passVars>>

CrestLoopNext == CrestLoopExit \/ CrestLoopBreak \/ CrestLoopIterate

CrestLoopSpec == CrestLoopInit /\ [][CrestLoopNext]_vars

\* ===================================== Refine: the new radius of one spoke
\* A double of the radius computation, by magnitude: zero, a power of two
\* 2^e with e from the smallest subnormal to the largest finite exponent,
\* infinity, or NaN.  Magnitudes are rounded to a power of two.
MinExponent == -1074
MaxExponent == 1023
Zero == [k |-> "zero", e |-> 0]
Infinity == [k |-> "inf", e |-> 0]
NotANumber == [k |-> "nan", e |-> 0]
PowerOfTwo(e) ==
  IF e < MinExponent THEN Zero
  ELSE IF e > MaxExponent THEN Infinity
  ELSE [k |-> "pos", e |-> e]

\* std::exp(c): 2^(c * log2(e)), log2(e) taken as 1.443, rounded to a double
Exp(c) == PowerOfTwo((c * 1443) \div 1000)

\* the product of two non-negative doubles
Times(a, b) ==
  IF a.k = "nan" \/ b.k = "nan" THEN NotANumber
  ELSE IF a.k = "inf" \/ b.k = "inf"
       THEN (IF a.k = "zero" \/ b.k = "zero" THEN NotANumber ELSE Infinity)
  ELSE IF a.k = "zero" \/ b.k = "zero" THEN Zero
  ELSE PowerOfTwo(a.e + b.e)

\* double newRadius = exp(coeff[c++]) * oldRadius;
NewRadius(coeff, oldRadius) == Times(Exp(coeff), oldRadius)

\* the fourth coefficients and the old radii of the calls
RadiusCoefficients == {-1000, -800, -700, -100, -10, -1, 0, 1, 100, 700, 800}
OldRadii == {PowerOfTwo(MinExponent), PowerOfTwo(-1000), PowerOfTwo(-20),
             PowerOfTwo(0), PowerOfTwo(10)}

RefineRadiusInit ==
  /\ MainOff
  /\ crestLoop = Off /\ points = Off /\ fieldCall = Off /\ creator = Off
  /\ crestPass = Off /\ sampling = Off /\ rsrad = Off /\ runForward = Off
  /\ \E coeff \in RadiusCoefficients, oldRadius \in OldRadii :
       refineCall = [pc |-> "call", coeff |-> coeff, oldRadius |-> oldRadius,
                     newRadius |-> NotANumber]

\* the computation of newRadius for one spoke of the clone
RefineRadius ==
  /\ refineCall.pc = "call"
  /\ refineCall' = [refineCall EXCEPT !.pc = "computed",
                                      !.newRadius = NewRadius(refineCall.coeff,
                                                              refineCall.oldRadius)]
  /\ UNCHANGED <<mainVars, crestLoop, points, fieldCall, creator, passVars>>

RefineRadiusNext == RefineRadius

RefineRadiusSpec == RefineRadiusInit /\ [][RefineRadiusNext]_vars

\* =========================== the coefficient vectors and the grid they encode
\* Refiner's constructor, RefineUp and RefineDown on grids whose spokes point
\* in different directions from one skeletal point to the next
SpokeDirections == <<(<<0, 0, 1>>), (<<1, 0, 0>>), (<<0, -1, 0>>), (<<-1, 0, 0>>), (<<0, 0, -1>>)>>
CoefficientRadii == {1000, 4000}
VariedSpoke(lines, steps, l, s, o, r) ==
  LET n == l * steps + s
      dir == SpokeDirections[(n % Len(SpokeDirections)) + 1]
  IN MkSpoke(<<0, l, s>>,
             VecScale(IF o = DownOrientation THEN VecScale(dir, -1) ELSE dir, r * (n + 1)))
VariedHeap(lines, steps, r) ==
  [ref \in AllRefs |->
     IF ref[1] = "live" /\ ref[2] < lines /\ ref[3] < steps
        /\ (ref[4] = CrestOrientation => ref[3] = steps - 1)
     THEN VariedSpoke(lines, steps, ref[2], ref[3], ref[4], r) ELSE FreeCell]

NoCoefficients == <<>>
CoefficientInit ==
  /\ MainOff
  /\ crestLoop = Off /\ points = Off /\ fieldCall = Off /\ creator = Off
  /\ crestPass = Off /\ sampling = Off /\ rsrad = Off /\ runForward = Off
  /\ \E lines \in 1 .. MaxLines, steps \in 1 .. MaxSteps, r \in CoefficientRadii :
       refineCall = [pc |-> "Refiner", stage |-> 0,
                     heap |-> VariedHeap(lines, steps, r),
                     m_srep |-> CloneGrid(InputGrid(lines, steps), "live"),
                     m_flattenedUpCoeff |-> NoCoefficients,
                     m_flattenedDownCoeff |-> NoCoefficients,
                     candidate |-> <<>>, changed |-> FALSE]

\* the constructor's call of GetInitialCoefficients
CoefficientConstruct ==
  /\ refineCall.pc = "Refiner"
  /\ refineCall' =
       [refineCall EXCEPT
          !.pc = "RefineSpokes", !.stage = 1,
          !.m_flattenedUpCoeff =
             GetInitialCoefficients(refineCall.heap, refineCall.m_srep, UpOrientation),
          !.m_flattenedDownCoeff =
             GetInitialCoefficients(refineCall.heap, refineCall.m_srep, DownOrientation)]
  /\ UNCHANGED <<mainVars, crestLoop, points, fieldCall, creator, passVars>>

CoefficientType == StageOrder[refineCall.stage]
CoefficientVector ==
  IF CoefficientType = UpOrientation THEN refineCall.m_flattenedUpCoeff
  ELSE refineCall.m_flattenedDownCoeff

\* the first evaluation of a pass: Refine with the vector as the constructor
\* left it, on a temporary clone
CoefficientFirstEvaluation ==
  /\ refineCall.pc = "RefineSpokes"
  /\ LET tempSRep == Refine(refineCall.heap, refineCall.m_srep, CoefficientVector,
                            CoefficientType, "temp")
     IN refineCall' =
          [refineCall EXCEPT
             !.pc = "min_newuoa",
             !.candidate = [k \in PointsOf(tempSRep.grid.lines, tempSRep.grid.steps) |->
                              SpokeAt(tempSRep.heap, tempSRep.grid, k[1], k[2], CoefficientType)],
             !.heap = ReleaseRegion(tempSRep.heap, "temp")]
  /\ UNCHANGED <<mainVars, crestLoop, points, fieldCall, creator, passVars>>

\* min_newuoa leaves its result in the vector; RefineUpDownSpokes rebuilds
\* the grid from it and copies the spokes of the pass into the live grid
CoefficientCommit ==
  /\ refineCall.pc = "min_newuoa"
  /\ \E coeff \in TrialCoefficients(CoefficientVector) :
       LET reg == IF CoefficientType = UpOrientation THEN "refinedUp" ELSE "refinedDown"
           refinedSRep == Refine(refineCall.heap, refineCall.m_srep, coeff, CoefficientType, reg)
           live == CommitSpokes(refineCall.m_srep, refinedSRep.grid, CoefficientType)
       IN refineCall' =
            [refineCall EXCEPT
               !.pc = IF refineCall.stage = 1 THEN "RefineSpokes" ELSE "done",
               !.stage = @ + 1,
               !.m_flattenedUpCoeff = IF CoefficientType = UpOrientation THEN coeff ELSE @,
               !.m_flattenedDownCoeff = IF CoefficientType = DownOrientation THEN coeff ELSE @,
               !.m_srep = live,
               !.heap = ReleaseUnshared(refinedSRep.heap, reg, live),
               !.changed = @ \/ coeff # CoefficientVector]
  /\ UNCHANGED <<mainVars, crestLoop, points, fieldCall, creator, passVars>>

CoefficientNext == CoefficientConstruct \/ CoefficientFirstEvaluation \/ CoefficientCommit

CoefficientSpec == CoefficientInit /\ [][CoefficientNext]_vars

\* ============================================================ srep::Point3d
\* a double coordinate: a number or NaN
NaN == [nan |-> TRUE, v |-> 0]
Num(v) == [nan |-> FALSE, v |-> v]
\* std::isnan
IsNaN(d) == d.nan
\* < and != of doubles: with a NaN operand < is false and != is true
DoubleLess(a, b) == ~a.nan /\ ~b.nan /\ a.v < b.v
DoubleNotEqual(a, b) == a.nan \/ b.nan \/ a.v # b.v

NoPoint == [X |-> NaN, Y |-> NaN, Z |-> NaN, exists |-> FALSE]
MkPoint3d(x, y, z) == [X |-> x, Y |-> y, Z |-> z, exists |-> TRUE]

\* Point3d()
Point3dDefault == [thrown |-> "none", point |-> MkPoint3d(Num(0), Num(0), Num(0))]

\* Point3d(x, y, z) and Point3d(const double p[3]): the members are
\* initialised, then the body throws when one is NaN, and the object of a
\* constructor that throws does not come to exist
Point3dCtor(x, y, z) ==
  IF IsNaN(x) \/ IsNaN(y) \/ IsNaN(z)
  THEN [thrown |-> "invalid_argument", point |-> NoPoint]
  ELSE [thrown |-> "none", point |-> MkPoint3d(x, y, z)]

\* a setter that assigns before it checks
SetCoordinateAssignFirst(p, c, v) ==
  [thrown |-> IF IsNaN(v) THEN "invalid_argument" ELSE "none", point |-> [p EXCEPT ![c] = v]]

\* SetX, SetY, SetZ: c is "X", "Y" or "Z"
SetCoordinate(p, c, v) ==
  IF IsNaN(v) THEN [thrown |-> "invalid_argument", point |-> p]
  ELSE [thrown |-> "none", point |-> [p EXCEPT ![c] = v]]

\* operator< comparing the x coordinates only
PointLessXOnly(a, b) == DoubleLess(a.X, b.X)

\* operator<
PointLess(a, b) ==
  IF DoubleNotEqual(a.X, b.X) THEN DoubleLess(a.X, b.X)
  ELSE IF DoubleNotEqual(a.Y, b.Y) THEN DoubleLess(a.Y, b.Y)
  ELSE DoubleLess(a.Z, b.Z)
\* operator==, !=, >, <=, >=
PointEqual(a, b) == ~PointLess(a, b) /\ ~PointLess(b, a)
PointNotEqual(a, b) == PointLess(a, b) \/ PointLess(b, a)
PointGreater(a, b) == PointLess(b, a)
PointLessEqual(a, b) == ~PointLess(b, a)
PointGreaterEqual(a, b) == ~PointLess(a, b)

\* the doubles the callers pass and the point variables of the caller
Doubles == {NaN, Num(0), Num(1)}
PointVariables == {"a", "b", "c"}
Coordinates == {"X", "Y", "Z"}

Point3dInit ==
  /\ MainOff
  /\ crestLoop = Off /\ refineCall = Off /\ fieldCall = Off /\ creator = Off
  /\ crestPass = Off /\ sampling = Off /\ rsrad = Off /\ runForward = Off
  /\ points = [obj |-> [n \in PointVariables |-> NoPoint],
               last |-> [op |-> "none", nanArg |-> FALSE, thrown |-> "none"]]

\* n = Point3d()
DefaultConstructPoint ==
  /\ \E n \in PointVariables :
       points' = [obj |-> [points.obj EXCEPT ![n] = Point3dDefault.point],
                  last |-> [op |-> "Point3d()", nanArg |-> FALSE, thrown |-> "none"]]
  /\ UNCHANGED <<mainVars, crestLoop, refineCall, fieldCall, creator, passVars>>

\* n = Point3d(x, y, z): when the constructor throws, n is as it was
ConstructPoint ==
  /\ \E n \in PointVariables, x \in Doubles, y \in Doubles, z \in Doubles :
       LET r == Point3dCtor(x, y, z)
       IN points' = [obj |-> IF r.thrown = "none" THEN [points.obj EXCEPT ![n] = r.point]
                             ELSE points.obj,
                     last |-> [op |-> "Point3d(x,y,z)",
                               nanArg |-> IsNaN(x) \/ IsNaN(y) \/ IsNaN(z),
                               thrown |-> r.thrown]]
  /\ UNCHANGED <<mainVars, crestLoop, refineCall, fieldCall, creator, passVars>>

\* n.SetX(v), n.SetY(v) or n.SetZ(v) on a point that exists
SetPointCoordinate ==
  /\ \E n \in PointVariables, c \in Coordinates, v \in Doubles :
       /\ points.obj[n].exists
       /\ LET r == SetCoordinate(points.obj[n], c, v)
          IN points' = [obj |-> [points.obj EXCEPT ![n] = r.point],
                        last |-> [op |-> "Set", nanArg |-> IsNaN(v), thrown |-> r.thrown]]
  /\ UNCHANGED <<mainVars, crestLoop, refineCall, fieldCall, creator, passVars>>

Point3dNext == DefaultConstructPoint \/ ConstructPoint \/ SetPointCoordinate

Point3dSpec == Point3dInit /\ [][Point3dNext]_vars

\* ====================================== bounds normalization, binary volume
\* A double of the bounds arithmetic as an exact fraction <<n, d>>, d > 0.
\* d = 0 is what a division by zero leaves: an infinity of the sign of n, or
\* NaN when n = 0.
FromInt(i) == <<i, 1>>
Half == <<1, 2>>
FracNaN == <<0, 0>>
FracNeg(a) == <<-a[1], a[2]>>
FracAdd(a, b) ==
  IF a = FracNaN \/ b = FracNaN THEN FracNaN
  ELSE IF a[2] = 0 /\ b[2] = 0 THEN (IF a[1] = b[1] THEN a ELSE FracNaN)
  ELSE IF a[2] = 0 THEN a
  ELSE IF b[2] = 0 THEN b
  ELSE <<a[1] * b[2] + b[1] * a[2], a[2] * b[2]>>
FracSub(a, b) == FracAdd(a, FracNeg(b))
FracMul(a, b) ==
  IF a = FracNaN \/ b = FracNaN THEN FracNaN
  ELSE IF a[2] = 0 \/ b[2] = 0 THEN <<Sign(a[1]) * Sign(b[1]), 0>>
  ELSE <<a[1] * b[1], a[2] * b[2]>>
FracDiv(a, b) ==
  IF a = FracNaN \/ b = FracNaN THEN FracNaN
  ELSE IF b[2] = 0 THEN (IF a[2] = 0 THEN FracNaN ELSE FromInt(0))
  ELSE IF a[2] = 0 THEN <<a[1] * (IF b[1] < 0 THEN -1 ELSE 1), 0>>
  ELSE IF b[1] = 0 THEN <<Sign(a[1]), 0>>
  ELSE <<a[1] * b[2] * Sign(b[1]), a[2] * Abs(b[1])>>
\* == and <= of doubles, false with a NaN operand
FracEq(a, b) ==
  /\ a # FracNaN /\ b # FracNaN
  /\ IF a[2] = 0 \/ b[2] = 0 THEN a = b ELSE a[1] * b[2] = b[1] * a[2]
FracLeq(a, b) ==
  /\ a # FracNaN /\ b # FracNaN
  /\ IF a[2] = 0 THEN (a[1] < 0 \/ a = b)
     ELSE IF b[2] = 0 THEN b[1] > 0
     ELSE a[1] * b[2] <= b[1] * a[2]

\* the ranges of the three axes of bounds <<xmin, xmax, ymin, ymax, zmin, zmax>>
Range(bounds) == <<bounds[2] - bounds[1], bounds[4] - bounds[3], bounds[6] - bounds[5]>>

UnitInterval == <<FromInt(0), FromInt(1)>>
\* an axis put at the origin instead of centred
UncentredInterval(halfLength) == <<FromInt(0), FracAdd(halfLength, halfLength)>>
\* newCenter[i] - halfLength, newCenter[i] + halfLength, newCenter being 0.5
CentredInterval(halfLength) == <<FracSub(Half, halfLength), FracAdd(Half, halfLength)>>

\* the new bounds as intervals of x, y and z; uninitialised when no branch is taken
ComputePolyDataToImageDataNewBounds(bounds) ==
  LET range == Range(bounds)
      ratioYX == FracDiv(FromInt(range[2]), FromInt(range[1]))
      ratioZX == FracDiv(FromInt(range[3]), FromInt(range[1]))
      ratioZY == FracDiv(FromInt(range[3]), FromInt(range[2]))
  IN IF range[1] >= range[2] /\ range[1] >= range[3]
     THEN <<UnitInterval, CentredInterval(FracMul(Half, ratioYX)),
            CentredInterval(FracMul(Half, ratioZX))>>
     ELSE IF range[2] >= range[1] /\ range[2] >= range[3]
     THEN <<CentredInterval(FracDiv(Half, ratioYX)), UnitInterval,
            CentredInterval(FracMul(Half, ratioZY))>>
     ELSE IF range[3] >= range[1] /\ range[3] >= range[2]
     THEN <<CentredInterval(FracDiv(Half, ratioZX)), CentredInterval(FracDiv(Half, ratioZY)),
            UnitInterval>>
     ELSE <<"uninitialised", "uninitialised", "uninitialised">>

\* the point loop of ConvertPolyDataToImageData for coordinate i of one point
TransformMeshCoordinate(bounds, newBounds, i, oldPt) ==
  LET rangeTransMesh == FracSub(newBounds[i][2], newBounds[i][1])
  IN FracAdd(FracDiv(FracMul(rangeTransMesh, FromInt(oldPt - bounds[2 * i - 1])),
                     FromInt(Range(bounds)[i])),
             newBounds[i][1])

\* the matrix without the centring of the shorter axes
CreateBoundsToImageCoordsTransformAtOrigin(bounds) ==
  LET range == Range(bounds)
      Q(i, j) == FracDiv(FromInt(range[i]), FromInt(range[j]))
      transformedRanges ==
        IF range[1] >= range[2] /\ range[1] >= range[3] THEN <<FromInt(1), Q(2, 1), Q(3, 1)>>
        ELSE IF range[2] >= range[1] /\ range[2] >= range[3] THEN <<Q(1, 2), FromInt(1), Q(3, 2)>>
        ELSE <<Q(1, 3), Q(2, 3), FromInt(1)>>
  IN [i \in 1 .. 3 |->
        [scale |-> FracDiv(transformedRanges[i], FromInt(range[i])),
         translate |-> FracNeg(FracDiv(FracMul(transformedRanges[i], FromInt(bounds[2 * i - 1])),
                                       FromInt(range[i])))]]
\* the diagonal and the translation column of the matrix, by axis
CreateBoundsToImageCoordsTransform(bounds) ==
  LET range == Range(bounds)
      Q(i, j) == FracDiv(FromInt(range[i]), FromInt(range[j]))
      transformedRanges ==
        IF range[1] >= range[2] /\ range[1] >= range[3] THEN <<FromInt(1), Q(2, 1), Q(3, 1)>>
        ELSE IF range[2] >= range[1] /\ range[2] >= range[3] THEN <<Q(1, 2), FromInt(1), Q(3, 2)>>
        ELSE <<Q(1, 3), Q(2, 3), FromInt(1)>>
      originTrans(i) == FracSub(Half, FracDiv(transformedRanges[i], FromInt(2)))
  IN [i \in 1 .. 3 |->
        [scale |-> FracDiv(transformedRanges[i], FromInt(range[i])),
         translate |-> FracSub(originTrans(i),
                               FracDiv(FracMul(transformedRanges[i], FromInt(bounds[2 * i - 1])),
                                       FromInt(range[i])))]]
\* the matrix applied to coordinate i of a point
MultiplyPoint(mat, i, v) == FracAdd(FracMul(mat[i].scale, FromInt(v)), mat[i].translate)

\* the bounds of the calls: the lower corner and the ranges of the axes
LowerCorner == <<-1, 0, 2>>
AxisRanges == {-1, 0, 1, 2, 4}
NoBounds == <<UnitInterval, UnitInterval, UnitInterval>>

FieldCallInit ==
  /\ MainOff
  /\ crestLoop = Off /\ refineCall = Off /\ points = Off /\ creator = Off
  /\ crestPass = Off /\ sampling = Off /\ rsrad = Off /\ runForward = Off
  /\ \E polydata \in BOOLEAN, rx \in AxisRanges, ry \in AxisRanges, rz \in AxisRanges :
       fieldCall = [pc |-> "call", polydata |-> polydata,
                    bounds |-> <<LowerCorner[1], LowerCorner[1] + rx,
                                 LowerCorner[2], LowerCorner[2] + ry,
                                 LowerCorner[3], LowerCorner[3] + rz>>,
                    thrown |-> "none", divisors |-> {}, newBounds |-> NoBounds,
                    newPts |-> <<>>, allocated |-> FALSE,
                    transform |-> FALSE, mat |-> <<>>]

\* ConvertPolyDataToImageData for a mesh whose points reach the corners of
\* the bounds: the null check, the new bounds, the points moved into them,
\* the volume allocated, filled and cut by the stencil
ConvertPolyDataToImageData ==
  /\ fieldCall.pc = "call"
  /\ IF ~fieldCall.polydata
     THEN fieldCall' = [fieldCall EXCEPT !.pc = "thrown", !.thrown = "invalid_argument"]
     ELSE LET bounds == fieldCall.bounds
              newBounds == ComputePolyDataToImageDataNewBounds(bounds)
          IN fieldCall' =
               [fieldCall EXCEPT
                  !.pc = "returned",
                  !.divisors = {Range(bounds)[i] : i \in 1 .. 3},
                  !.newBounds = newBounds,
                  !.newPts = [c \in 1 .. 2 |-> [i \in 1 .. 3 |->
                                TransformMeshCoordinate(bounds, newBounds, i,
                                                        bounds[2 * i - 2 + c])]],
                  !.allocated = TRUE]
  /\ UNCHANGED <<mainVars, crestLoop, refineCall, points, creator, passVars>>

\* CreateBoundsToImageCoordsTransform on the same bounds
CreateTransform ==
  /\ ~fieldCall.transform
  /\ fieldCall' = [fieldCall EXCEPT !.transform = TRUE,
                                    !.mat = CreateBoundsToImageCoordsTransform(fieldCall.bounds)]
  /\ UNCHANGED <<mainVars, crestLoop, refineCall, points, creator, passVars>>

FieldCallNext == ConvertPolyDataToImageData \/ CreateTransform

FieldCallSpec == FieldCallInit /\ [][FieldCallNext]_vars

\* ================================================= SRepCreator: GenerateSRep
\* A coordinate of the medial sheet: stepSize = 1.0 / numStepsToCrest is
\* infinite for numStepsToCrest = 0 and stepSize * j is then NaN at j = 0
SheetCoordinate(numStepsToCrest, v) == IF numStepsToCrest = 0 THEN NaN ELSE Num(v)

\* GenerateEigenSRep: the rows of its five matrices.  The geometry of the
\* ellipsoid is left out: row (i, j) holds coordinates that name i and j.
GenerateEigenSRep(numFoldPoints, numStepsToCrest) ==
  LET C(v) == SheetCoordinate(numStepsToCrest, v)
      I(id) == (id - 1) \div (numStepsToCrest + 1)
      J(id) == (id - 1) % (numStepsToCrest + 1)
      UpDown == 1 .. numFoldPoints * (numStepsToCrest + 1)
  IN [numFoldPoints |-> numFoldPoints, numStepsToCrest |-> numStepsToCrest,
      skeletalPoints |-> [id \in UpDown |-> <<C(10 * I(id)), C(10 * J(id)), C(0)>>],
      upSpokeBoundaryPoints |-> [id \in UpDown |-> <<C(10 * I(id)), C(10 * J(id)), C(5)>>],
      downSpokeBoundaryPoints |-> [id \in UpDown |-> <<C(10 * I(id)), C(10 * J(id)), C(-5)>>],
      crestSkeletalPoints |->
        [i \in 1 .. numFoldPoints |-> <<C(10 * (i - 1)), C(10 * numStepsToCrest + 1), C(0)>>],
      crestSpokeBoundaryPoints |->
        [i \in 1 .. numFoldPoints |-> <<C(10 * (i - 1)), C(10 * numStepsToCrest + 5), C(0)>>]]

\* PointFromEigen
PointFromEigen(v) == Point3dCtor(v[1], v[2], v[3])
\* srep::Spoke(skeletalPoint, srep::Vector3d(skeletalPoint, boundaryPoint))
SpokeBetween(skeletalPoint, boundaryPoint) ==
  MkSpoke(<<skeletalPoint.X.v, skeletalPoint.Y.v, skeletalPoint.Z.v>>,
          <<boundaryPoint.X.v - skeletalPoint.X.v, boundaryPoint.Y.v - skeletalPoint.Y.v,
            boundaryPoint.Z.v - skeletalPoint.Z.v>>)

\* the crest test made at the first step of a line
OnCrestAtFirstStep(j, numStepsToCrest) == j = 0
\* if (j == eigenSRep.numStepsToCrest)
OnCrest(j, numStepsToCrest) == j = numStepsToCrest

\* the body of the inner loop of ConvertEigenSRepToEllipticalSRep for (i, j):
\* the skeletal point emplaced at the back of the last row, or the exception
\* of a Point3d constructor
ConvertSkeletalPoint(eigenSRep, i, j) ==
  LET upDownSkeletonIndex == i * (eigenSRep.numStepsToCrest + 1) + j
      skeletalPoint == PointFromEigen(eigenSRep.skeletalPoints[upDownSkeletonIndex + 1])
      upBoundaryPoint == PointFromEigen(eigenSRep.upSpokeBoundaryPoints[upDownSkeletonIndex + 1])
      downBoundaryPoint ==
        PointFromEigen(eigenSRep.downSpokeBoundaryPoints[upDownSkeletonIndex + 1])
      crestSkeletalPoint == PointFromEigen(eigenSRep.crestSkeletalPoints[i + 1])
      crestBoundaryPoint == PointFromEigen(eigenSRep.crestSpokeBoundaryPoints[i + 1])
      crest == OnCrest(j, eigenSRep.numStepsToCrest)
  IN IF \/ skeletalPoint.thrown # "none" \/ upBoundaryPoint.thrown # "none"
        \/ downBoundaryPoint.thrown # "none"
        \/ crest /\ (crestSkeletalPoint.thrown # "none" \/ crestBoundaryPoint.thrown # "none")
     THEN [thrown |-> "invalid_argument", point |-> [up |-> FreeCell, down |-> FreeCell,
                                                     crest |-> FreeCell]]
     ELSE [thrown |-> "none",
           point |-> [up |-> SpokeBetween(skeletalPoint.point, upBoundaryPoint.point),
                      down |-> SpokeBetween(skeletalPoint.point, downBoundaryPoint.point),
                      crest |-> IF crest
                                THEN SpokeBetween(crestSkeletalPoint.point,
                                                  crestBoundaryPoint.point)
                                ELSE FreeCell]]

CreatorInit ==
  /\ MainOff
  /\ crestLoop = Off /\ refineCall = Off /\ points = Off /\ fieldCall = Off
  /\ crestPass = Off /\ sampling = Off /\ rsrad = Off /\ runForward = Off
  /\ \E numFoldPoints \in 0 .. MaxFoldPoints, numStepsToCrest \in 0 .. MaxStepsToCrest :
       creator = [pc |-> "GenerateSRep", thrown |-> "none",
                  eigenSRep |-> GenerateEigenSRep(numFoldPoints, numStepsToCrest),
                  grid |-> <<>>, i |-> 0, j |-> 0]

\* the outer loop: a row is added to the grid, or the loop ends and the
\* EllipticalSRep is made of the grid
ConvertNextLine ==
  /\ creator.pc = "GenerateSRep"
  /\ creator' = IF creator.i < creator.eigenSRep.numFoldPoints
                THEN [creator EXCEPT !.pc = "line", !.grid = Append(@, <<>>), !.j = 0]
                ELSE [creator EXCEPT !.pc = "returned"]
  /\ UNCHANGED <<mainVars, crestLoop, refineCall, points, fieldCall, passVars>>

\* one iteration of the inner loop, or its end
ConvertNextStep ==
  /\ creator.pc = "line"
  /\ creator' =
       IF creator.j < creator.eigenSRep.numStepsToCrest + 1
       THEN LET r == ConvertSkeletalPoint(creator.eigenSRep, creator.i, creator.j)
            IN IF r.thrown # "none"
               THEN [creator EXCEPT !.pc = "thrown", !.thrown = r.thrown, !.grid = <<>>]
               ELSE [creator EXCEPT !.grid[Len(creator.grid)] = Append(@, r.point),
                                    !.j = @ + 1]
       ELSE [creator EXCEPT !.pc = "GenerateSRep", !.i = @ + 1]
  /\ UNCHANGED <<mainVars, crestLoop, refineCall, points, fieldCall, passVars>>

CreatorNext == ConvertNextLine \/ ConvertNextStep

CreatorSpec == CreatorInit /\ [][CreatorNext]_vars

\* ================================== OptimizeCrestSpokeLengths over a grid
\* the grid the pass runs on: lines x steps skeletal points with their up
\* and down spokes, the points of the last step with a crest spoke
CrestPassGrid(lines, steps, r) ==
  [pt \in PointsOf(lines, steps) |->
     [up |-> MkSpoke(<<pt[1], pt[2], 0>>, <<0, 0, r>>),
      down |-> MkSpoke(<<pt[1], pt[2], 0>>, <<0, 0, -r>>),
      crest |-> IF pt[2] = steps - 1 THEN MkSpoke(<<0, pt[1], 0>>, <<r, 0, 0>>)
                ELSE FreeCell]]

\* the test of the for loop with one iteration too many
CrestLoopContinuesOnceMore(i, maxIter, dist) == i <= maxIter /\ ~OnSurface(dist)
\* for (size_t i = 0; i < maxIter; ++i) { if (abs(dist) <= epsilon) break; ...
CrestLoopContinues(i, maxIter, dist) == i < maxIter /\ ~OnSurface(dist)

CrestPassInit ==
  /\ MainOff
  /\ crestLoop = Off /\ refineCall = Off /\ points = Off /\ fieldCall = Off /\ creator = Off
  /\ sampling = Off /\ rsrad = Off /\ runForward = Off
  /\ \E lines \in 1 .. MaxLines, steps \in 1 .. MaxSteps, r \in CrestRadii,
        stepSize \in CrestStepSizes, maxIter \in 0 .. MaxIter, surfX \in CrestSurfaces :
       crestPass = [pc |-> "lines", lines |-> lines, steps |-> steps, stepSize |-> stepSize,
                    maxIter |-> maxIter, surfX |-> surfX, l |-> 0, s |-> 0,
                    base |-> CrestPassGrid(lines, steps, r),
                    grid |-> CrestPassGrid(lines, steps, r),
                    incremented |-> [pt \in PointsOf(lines, steps) |-> 0],
                    dist |-> 0, oldDist |-> 0, thisStepSize |-> 0, i |-> 0]

\* ++s, and ++l with s = 0 at the end of a line
CrestPassAdvance(cp) ==
  IF cp.s + 1 < cp.steps THEN [cp EXCEPT !.pc = "lines", !.s = @ + 1]
  ELSE [cp EXCEPT !.pc = "lines", !.l = @ + 1, !.s = 0]

\* the body of the loops over (l, s) down to the for loop
CrestPassVisit ==
  /\ crestPass.pc = "lines"
  /\ crestPass.l < crestPass.lines
  /\ LET pt == <<crestPass.l, crestPass.s>>
         spoke == crestPass.grid[pt].crest
         dist == ImplicitDistance(GetBoundaryPoint(spoke), crestPass.surfX)
     IN crestPass' =
          IF spoke.alloc
          THEN [crestPass EXCEPT !.pc = "for", !.incremented[pt] = @ + 1, !.dist = dist,
                                 !.oldDist = dist, !.thisStepSize = crestPass.stepSize,
                                 !.i = 0]
          ELSE CrestPassAdvance(crestPass)
  /\ UNCHANGED <<mainVars, unitVars, sampling, rsrad, runForward>>

\* one iteration of the for loop that moves the crest spoke
CrestPassIterate ==
  /\ crestPass.pc = "for"
  /\ CrestLoopContinues(crestPass.i, crestPass.maxIter, crestPass.dist)
  /\ LET pt == <<crestPass.l, crestPass.s>>
         it == CrestLengthIteration(crestPass.grid[pt].crest, crestPass.dist,
                                    crestPass.thisStepSize, crestPass.surfX)
     IN crestPass' = [crestPass EXCEPT !.grid[pt].crest = it.spoke, !.dist = it.dist,
                                       !.oldDist = it.dist,
                                       !.thisStepSize = it.thisStepSize, !.i = @ + 1]
  /\ UNCHANGED <<mainVars, unitVars, sampling, rsrad, runForward>>

\* the for loop ends, by its bound or by the break
CrestPassLeaveLoop ==
  /\ crestPass.pc = "for"
  /\ ~CrestLoopContinues(crestPass.i, crestPass.maxIter, crestPass.dist)
  /\ crestPass' = CrestPassAdvance(crestPass)
  /\ UNCHANGED <<mainVars, unitVars, sampling, rsrad, runForward>>

\* l < GetNumberOfLines() fails: the function returns
CrestPassReturn ==
  /\ crestPass.pc = "lines"
  /\ crestPass.l >= crestPass.lines
  /\ crestPass' = [crestPass EXCEPT !.pc = "returned"]
  /\ UNCHANGED <<mainVars, unitVars, sampling, rsrad, runForward>>

CrestPassNext == CrestPassVisit \/ CrestPassIterate \/ CrestPassLeaveLoop \/ CrestPassReturn

\* the function runs on one thread and is not interrupted
CrestPassSpec == CrestPassInit /\ [][CrestPassNext]_vars /\ WF_vars(CrestPassNext)

\* ============================ RefineCrestSpokes: the curvature correction
\* pairs (Maximum_Curvature, Minimum_Curvature) of a mesh point, in 1/unit:
\* a saddle, a flat point, and two convex points
CurvatureChoices ==
  {<<(<<1, 1000>>), (<<-1, 300>>)>>, <<FromInt(0), FromInt(0)>>,
   <<(<<1, 2500>>), (<<1, 4000>>)>>, <<(<<-1, 1500>>), (<<-1, 2000>>)>>}

FracAbs(a) == <<Abs(a[1]), a[2]>>
\* std::max(a, b): b when a < b, else a
FracMax(a, b) == IF FracLeq(a, b) /\ ~FracEq(a, b) THEN b ELSE a
\* const double rCrest = 1 / (max(abs(curMax), abs(curMin)));
RadiusOfCrestCurvature(curMax, curMin) ==
  FracDiv(FromInt(1), FracMax(FracAbs(curMax), FracAbs(curMin)))

\* the correction that leaves the radius as it is
CorrectByCurvatureKeepingRadius(spoke, curMax, curMin) ==
  LET rCrest == RadiusOfCrestCurvature(curMax, curMin)
  IN IF FracLeq(FracSub(FromInt(GetRadius(spoke)), rCrest), FromInt(0)) THEN spoke
     ELSE SetSkeletalPoint(spoke, VecAdd(spoke.skel,
            VecScale(VecUnit(GetDirection(spoke)), GetRadius(spoke) - rCrest[1] \div rCrest[2])))
\* the correction that leaves the skeletal point where it is
CorrectByCurvatureKeepingSkeletalPoint(spoke, curMax, curMin) ==
  LET rCrest == RadiusOfCrestCurvature(curMax, curMin)
  IN IF FracLeq(FracSub(FromInt(GetRadius(spoke)), rCrest), FromInt(0)) THEN spoke
     ELSE SetRadius(spoke, rCrest[1] \div rCrest[2])
\* the body of the second loop of RefineCrestSpokes for one crest spoke, from
\* the curvatures found at the mesh point nearest its boundary point
CorrectByCurvature(spoke, curMax, curMin) ==
  LET rCrest == RadiusOfCrestCurvature(curMax, curMin)
  IN IF FracLeq(FracSub(FromInt(GetRadius(spoke)), rCrest), FromInt(0)) THEN spoke
     ELSE CorrectCrestSpoke(spoke, rCrest[1] \div rCrest[2])

\* the loop starts on a grid whose crest spokes have any of the radii, over a
\* mesh whose point nearest the crest spoke of line l has curvatures curv[l]
CurvaturePassInit ==
  /\ MainOff
  /\ crestLoop = Off /\ refineCall = Off /\ points = Off /\ fieldCall = Off /\ creator = Off
  /\ sampling = Off /\ rsrad = Off /\ runForward = Off
  /\ \E lines \in 1 .. MaxLines, steps \in 1 .. MaxSteps, r \in CrestRadii :
       \E curv \in [0 .. lines - 1 -> CurvatureChoices] :
         crestPass = [pc |-> "lines", lines |-> lines, steps |-> steps, l |-> 0, s |-> 0,
                      curv |-> curv, base |-> CrestPassGrid(lines, steps, r),
                      grid |-> CrestPassGrid(lines, steps, r),
                      incremented |-> [pt \in PointsOf(lines, steps) |-> 0]]

\* one pass of the body of the loops over (l, s)
CurvaturePassVisit ==
  /\ crestPass.pc = "lines"
  /\ crestPass.l < crestPass.lines
  /\ LET pt == <<crestPass.l, crestPass.s>>
         spoke == crestPass.grid[pt].crest
         cur == crestPass.curv[crestPass.l]
     IN crestPass' =
          IF spoke.alloc
          THEN [CrestPassAdvance(crestPass) EXCEPT
                  !.incremented[pt] = @ + 1,
                  !.grid[pt].crest = CorrectByCurvature(spoke, cur[1], cur[2])]
          ELSE CrestPassAdvance(crestPass)
  /\ UNCHANGED <<mainVars, unitVars, sampling, rsrad, runForward>>

CurvaturePassNext == CurvaturePassVisit \/ CrestPassReturn

CurvaturePassSpec == CurvaturePassInit /\ [][CurvaturePassNext]_vars

\* ================================================== sampling the fields
\* a voxel spacing of 0.006, whose reciprocal is not a whole number
VoxelSpacingSixThousandths == <<6, 1000>>
\* m_voxelSpacing(0.005); the double quotient 1 / 0.005 is exactly 200.0
VoxelSpacing == <<5, 1000>>

\* static_cast<int> of a finite double: truncation toward zero
TruncateToInt(a) == Sign(a[1]) * (Abs(a[1]) \div a[2])
\* std::lround of a finite double: to nearest, halves away from zero
LRound(a) == Sign(a[1]) * ((2 * Abs(a[1]) + a[2]) \div (2 * a[2]))
\* Clamp
Clamp(val, min, max) == IF val < min THEN min ELSE IF val > max THEN max ELSE val

\* dim[i] = static_cast<int>(1 / spacing[i])
VolumeDimension(spacing) == TruncateToInt(FracDiv(FromInt(1), spacing))
\* the index ComputeDistanceSquaredAndNormalToImage computes from one
\* coordinate of the transformed boundary point
VoxelIndex(transformed, spacing) ==
  LET maxIndex == LRound(FracDiv(FromInt(1), spacing)) - 1
  IN Clamp(LRound(FracDiv(transformed, spacing)), 0, maxIndex)

\* coordinates of boundary points in the normalized cube: below it, on its
\* lower face, half a voxel in, inside, on its upper face, above it
TransformedCoordinates == {<<-3, 2>>, <<0, 1>>, <<1, 400>>, <<1, 2>>, <<1, 1>>, <<7, 2>>}
NoIndex == <<-1, -1, -1>>

SamplingInit ==
  /\ MainOff
  /\ crestLoop = Off /\ refineCall = Off /\ points = Off /\ fieldCall = Off /\ creator = Off
  /\ crestPass = Off /\ rsrad = Off /\ runForward = Off
  /\ \E x \in TransformedCoordinates, y \in TransformedCoordinates,
        z \in TransformedCoordinates :
       sampling = [pc |-> "Refiner", transformedBoundaryArray |-> <<x, y, z>>,
                   dim |-> <<0, 0, 0>>, pixelIndex |-> NoIndex]

\* ConvertPolyDataToImageData sizes the volume the two fields are made from
AllocateVolume ==
  /\ sampling.pc = "Refiner"
  /\ sampling' = [sampling EXCEPT !.pc = "evaluate",
                                  !.dim = [i \in 1 .. 3 |-> VolumeDimension(VoxelSpacing)]]
  /\ UNCHANGED <<mainVars, unitVars, crestPass, rsrad, runForward>>

\* ComputeDistanceSquaredAndNormalToImage reads both fields at pixelIndex
SampleFields ==
  /\ sampling.pc = "evaluate"
  /\ sampling' = [sampling EXCEPT
                    !.pc = "sampled",
                    !.pixelIndex = [i \in 1 .. 3 |->
                                     VoxelIndex(sampling.transformedBoundaryArray[i],
                                                VoxelSpacing)]]
  /\ UNCHANGED <<mainVars, unitVars, crestPass, rsrad, runForward>>

SamplingNext == AllocateVolume \/ SampleFields

SamplingSpec == SamplingInit /\ [][SamplingNext]_vars

\* ============================================ the self-overlap penalty L2
\* Pow
RECURSIVE Pow(_, _)
Pow(val, exp) == IF exp = 0 THEN 1 ELSE val * Pow(val, exp - 1)

\* a step divisor of 2 at every node
StepDivisorAlwaysTwo(prevStep, nextStep, step) == 2
\* const auto divisor = prevStep == step || nextStep == step ? 1 : 2;
StepDivisor(prevStep, nextStep, step) == IF prevStep = step \/ nextStep = step THEN 1 ELSE 2

\* the grid positions ComputeRSradDerivatives reads for (line, step) and the
\* divisor of its differences along the steps
ComputeRSradDerivatives(numLines, numSteps, line, step) ==
  LET prevLine == (numLines + line - 1) % numLines
      nextLine == (numLines + line + 1) % numLines
      prevStep == IF step = 0 THEN 0 ELSE step - 1
      nextStep == IF step = numSteps - 1 THEN numSteps - 1 ELSE step + 1
  IN [line |-> line, step |-> step, prevLine |-> prevLine, nextLine |-> nextLine,
      prevStep |-> prevStep, nextStep |-> nextStep,
      divisor |-> StepDivisor(prevStep, nextStep, step)]

\* the size of the grid SmartInterpolateSRep returns: every interval between
\* neighbouring lines (around the fold) and between neighbouring steps (from
\* the spine to the crest, which stays the last step) is cut in density parts
SmartInterpolateSRep(lines, steps, interpolationLevel) ==
  IF lines = 0 THEN [lines |-> 0, steps |-> 0]
  ELSE [lines |-> lines * Pow(2, interpolationLevel),
        steps |-> (steps - 1) * Pow(2, interpolationLevel) + 1]

NoDerivatives == [line |-> -1, step |-> -1, prevLine |-> -1, nextLine |-> -1,
                  prevStep |-> -1, nextStep |-> -1, divisor |-> 0]

\* ComputeRSradDerivatives called for any node of any interpolated grid
DerivativesInit ==
  /\ MainOff
  /\ crestLoop = Off /\ refineCall = Off /\ points = Off /\ fieldCall = Off /\ creator = Off
  /\ crestPass = Off /\ sampling = Off /\ runForward = Off
  /\ \E numLines \in 1 .. SmartInterpolateSRep(MaxLines, MaxSteps, MaxInterpolationLevel).lines,
        numSteps \in 1 .. SmartInterpolateSRep(MaxLines, MaxSteps, MaxInterpolationLevel).steps :
       \E line \in 0 .. numLines - 1, step \in 0 .. numSteps - 1 :
         rsrad = [pc |-> "ComputeRSradDerivatives", numLines |-> numLines,
                  numSteps |-> numSteps, line |-> line, step |-> step,
                  read |-> NoDerivatives]

CallComputeRSradDerivatives ==
  /\ rsrad.pc = "ComputeRSradDerivatives"
  /\ rsrad' = [rsrad EXCEPT !.pc = "returned",
                            !.read = ComputeRSradDerivatives(rsrad.numLines, rsrad.numSteps,
                                                             rsrad.line, rsrad.step)]
  /\ UNCHANGED <<mainVars, unitVars, crestPass, sampling, runForward>>

DerivativesNext == CallComputeRSradDerivatives

DerivativesSpec == DerivativesInit /\ [][DerivativesNext]_vars

\* the larger eigenvalue of rSradMat at a node, in tenths
EigenvalueChoices == {-5, 10, 15, 25}

\* EvaluateObjectiveFunction from the interpolation on, for a candidate grid
\* of lines x steps skeletal points
PenaltyInit ==
  /\ MainOff
  /\ crestLoop = Off /\ refineCall = Off /\ points = Off /\ fieldCall = Off /\ creator = Off
  /\ crestPass = Off /\ sampling = Off /\ runForward = Off
  /\ \E lines \in 0 .. MaxLines, steps \in 1 .. MaxSteps,
        interpolationLevel \in 0 .. MaxInterpolationLevel :
       rsrad = [pc |-> "interpolate", lines |-> lines,
                steps |-> IF lines = 0 THEN 0 ELSE steps,
                m_interpolationLevel |-> interpolationLevel,
                interpolatedSRep |-> [lines |-> 0, steps |-> 0],
                i |-> 0, j |-> 0, visited |-> <<>>, read |-> NoDerivatives,
                contribution |-> 0, penalty |-> 0]

Interpolate ==
  /\ rsrad.pc = "interpolate"
  /\ rsrad' = [rsrad EXCEPT !.pc = "ComputeRSradPenalty",
                            !.interpolatedSRep =
                               SmartInterpolateSRep(rsrad.lines, rsrad.steps,
                                                    rsrad.m_interpolationLevel)]
  /\ UNCHANGED <<mainVars, unitVars, crestPass, sampling, runForward>>

PenaltyDensity == Pow(2, rsrad.m_interpolationLevel)
PenaltyNumLines == rsrad.interpolatedSRep.lines \div PenaltyDensity
PenaltyNumSteps == rsrad.interpolatedSRep.steps \div PenaltyDensity

\* the body of the loops of ComputeRSradPenalty for (i, j)
PenaltyVisit ==
  /\ rsrad.pc = "ComputeRSradPenalty"
  /\ rsrad.interpolatedSRep.lines # 0
  /\ rsrad.i < PenaltyNumLines /\ PenaltyNumSteps > 0
  /\ \E maxEigen \in EigenvalueChoices :
       LET ii == rsrad.i * PenaltyDensity
           jj == rsrad.j * PenaltyDensity
           contribution == IF maxEigen - 10 > 0 THEN maxEigen - 10 ELSE 0
       IN rsrad' = [rsrad EXCEPT
                      !.read = ComputeRSradDerivatives(rsrad.interpolatedSRep.lines,
                                                       rsrad.interpolatedSRep.steps, ii, jj),
                      !.visited = Append(@, <<ii, jj>>),
                      !.contribution = contribution,
                      !.penalty = @ + contribution,
                      !.i = IF rsrad.j + 1 < PenaltyNumSteps THEN @ ELSE @ + 1,
                      !.j = IF rsrad.j + 1 < PenaltyNumSteps THEN @ + 1 ELSE 0]
  /\ UNCHANGED <<mainVars, unitVars, crestPass, sampling, runForward>>

\* return 0 for an empty grid, return penalty after the loops
PenaltyReturn ==
  /\ rsrad.pc = "ComputeRSradPenalty"
  /\ \/ rsrad.interpolatedSRep.lines = 0
     \/ rsrad.i >= PenaltyNumLines
     \/ PenaltyNumSteps = 0
  /\ rsrad' = [rsrad EXCEPT !.pc = "returned"]
  /\ UNCHANGED <<mainVars, unitVars, crestPass, sampling, runForward>>

PenaltyNext == Interpolate \/ PenaltyVisit \/ PenaltyReturn

PenaltySpec == PenaltyInit /\ [][PenaltyNext]_vars

\* =============================================== SRepCreator: RunForward

\* the nodes a call may add to the scene
FlowedMeshNode == "final-flowed-mesh"
EllipsoidNode == "Best fitting ellipsoid."
SRepNode == "Best fitting ellipsoid SRep"

\* MakeModelNode: nullptr when the logic has no scene, else a node of the
\* given name added to the scene
MakeModelNode(mrmlScene, name) ==
  IF ~mrmlScene THEN [node |-> NoNode, added |-> {}]
  ELSE [node |-> name, added |-> {name}]

\* the caller's model (null, or with or without a display node), the logic's
\* temporary folder and scene, and what the collaborators will answer: the
\* iteration at which the curvature or the normals are missing (0: never),
\* whether GenerateSRep throws, whether the s-rep logic adds its node
RunForwardInit ==
  /\ MainOff
  /\ crestLoop = Off /\ refineCall = Off /\ points = Off /\ fieldCall = Off /\ creator = Off
  /\ crestPass = Off /\ sampling = Off /\ rsrad = Off
  /\ \E model \in {"nullptr", "model", "model without display node"},
        tempFolder \in BOOLEAN, mrmlScene \in BOOLEAN, srepNodeId \in BOOLEAN,
        maxIterations \in 0 .. MaxIter, generateThrows \in BOOLEAN :
       \E missingAt \in 0 .. maxIterations :
         runForward = [pc |-> "RunForward", model |-> model, tempFolder |-> tempFolder,
                       scene |-> mrmlScene, srepNodeId |-> srepNodeId,
                       maxIterations |-> maxIterations, missingAt |-> missingAt,
                       generateThrows |-> generateThrows,
                       i |-> 0, nodes |-> {}, completed |-> {}, failed |-> {},
                       result |-> "none"]

\* RunForward returns false: the flowed mesh is null, or an exception was
\* caught
ReturnFalse(failure) ==
  [runForward EXCEPT !.pc = "returned", !.result = "false", !.failed = @ \cup {failure}]

\* the entry of FlowSurfaceMesh: null for a null model and for a temporary
\* folder that cannot be made
FlowSurfaceMesh ==
  /\ runForward.pc = "RunForward"
  /\ runForward' =
       IF runForward.model = "nullptr" THEN ReturnFalse("model")
       ELSE IF ~runForward.tempFolder THEN ReturnFalse("tempFolder")
       ELSE [runForward EXCEPT !.pc = "flow"]
  /\ UNCHANGED <<mainVars, unitVars, crestPass, sampling, rsrad>>

\* one iteration of the flow: null when the curvature array or the normals
\* are missing
FlowIteration ==
  /\ runForward.pc = "flow"
  /\ runForward.i < runForward.maxIterations
  /\ runForward' =
       IF runForward.missingAt = runForward.i + 1 THEN ReturnFalse("curvature")
       ELSE [runForward EXCEPT !.i = @ + 1]
  /\ UNCHANGED <<mainVars, unitVars, crestPass, sampling, rsrad>>

\* after the loop: the node of the flowed mesh, coloured like the model's
\* display node. GetColor() on the null display node of a model that has
\* none is undefined behaviour: the process ends, or the call goes on.
FlowSurfaceMeshReturn ==
  /\ runForward.pc = "flow"
  /\ runForward.i = runForward.maxIterations
  /\ LET made == MakeModelNode(runForward.scene, FlowedMeshNode)
         goesOn == [runForward EXCEPT
                      !.pc = "CalculateBestFitEllipsoid",
                      !.nodes = @ \cup made.added,
                      !.completed = @ \cup {"flow"},
                      !.failed = IF made.node = NoNode THEN @ \cup {FlowedMeshNode} ELSE @]
     IN \/ runForward' = goesOn
        \/ /\ runForward.model = "model without display node"
           /\ runForward' = [runForward EXCEPT !.pc = "terminated",
                                               !.failed = @ \cup {"display node"}]
  /\ UNCHANGED <<mainVars, unitVars, crestPass, sampling, rsrad>>

\* the ellipsoid is fitted to the flowed mesh
CalculateBestFitEllipsoid ==
  /\ runForward.pc = "CalculateBestFitEllipsoid"
  /\ runForward' = [runForward EXCEPT !.pc = "MakeEllipsoidModelNode",
                                      !.completed = @ \cup {"fit"}]
  /\ UNCHANGED <<mainVars, unitVars, crestPass, sampling, rsrad>>

\* the node of the ellipsoid; RunForward does not look at what is returned
MakeEllipsoidModelNode ==
  /\ runForward.pc = "MakeEllipsoidModelNode"
  /\ LET made == MakeModelNode(runForward.scene, EllipsoidNode)
     IN runForward' = [runForward EXCEPT
                         !.pc = "GenerateSRep",
                         !.nodes = @ \cup made.added,
                         !.failed = IF made.node = NoNode THEN @ \cup {EllipsoidNode} ELSE @]
  /\ UNCHANGED <<mainVars, unitVars, crestPass, sampling, rsrad>>

\* the s-rep is generated; an exception is caught by RunForward
GenerateSRep ==
  /\ runForward.pc = "GenerateSRep"
  /\ runForward' =
       IF runForward.generateThrows THEN ReturnFalse("GenerateSRep")
       ELSE [runForward EXCEPT !.pc = "MakeEllipticalSRepNode",
                               !.completed = @ \cup {"generate"}]
  /\ UNCHANGED <<mainVars, unitVars, crestPass, sampling, rsrad>>

\* the node of the s-rep: nullptr without a scene or with an empty node id;
\* RunForward does not look at what is returned, and returns true
MakeEllipticalSRepNode ==
  /\ runForward.pc = "MakeEllipticalSRepNode"
  /\ LET made == runForward.scene /\ runForward.srepNodeId
     IN runForward' = [runForward EXCEPT
                         !.pc = "returned", !.result = "true",
                         !.nodes = IF made THEN @ \cup {SRepNode} ELSE @,
                         !.failed = IF made THEN @ ELSE @ \cup {SRepNode}]
  /\ UNCHANGED <<mainVars, unitVars, crestPass, sampling, rsrad>>

RunForwardNext ==
  \/ FlowSurfaceMesh \/ FlowIteration \/ FlowSurfaceMeshReturn
  \/ CalculateBestFitEllipsoid \/ MakeEllipsoidModelNode
  \/ GenerateSRep \/ MakeEllipticalSRepNode

RunForwardSpec == RunForwardInit /\ [][RunForwardNext]_vars

\* =================================================================== claims

IsPrefix(a, b) == Len(a) <= Len(b) /\ \A i \in 1 .. Len(a) : a[i] = b[i]
CanonicalStageLog ==
  << <<"start", UpOrientation>>, <<"end", UpOrientation>>,
     <<"start", DownOrientation>>, <<"end", DownOrientation>>,
     <<"start", CrestOrientation>>, <<"end", CrestOrientation>> >>
\* the live grid holds the spokes of orientation o that a pass committed
Committed(o, reg) ==
  \A k \in PointsOf(m_srep.lines, m_srep.steps) : m_srep.sp[<<k[1], k[2], o>>][1] = reg

\* C1: the stages of Refiner::Run start and end in the order RefineUp,
\* RefineDown, RefineCrest, each at most once and never re-entered; RefineDown
\* starts only with the up spokes committed to the live grid, RefineCrest only
\* with the down spokes committed too; a run that returns has run all three.
C1_StageOrder ==
  /\ IsPrefix(stageLog, CanonicalStageLog)
  /\ Len(stageLog) >= 3 => Committed(UpOrientation, "refinedUp")
  /\ Len(stageLog) >= 5 => Committed(DownOrientation, "refinedDown")
  /\ (pc = "done" /\ args.lines > 0) => stageLog = CanonicalStageLog
C1_Witness == pc = "done" /\ args.lines > 0 /\ stageLog = CanonicalStageLog

\* the crest skeletal points among the first n points the crest loops visit
CrestVisited(n) ==
  Cardinality({c \in 0 .. n - 1 : IsCrest(m_srep, c \div m_srep.steps, c % m_srep.steps)})
\* the evaluations of the running min_newuoa call that reached IncrementIteration
CountedEvals == Cardinality({i \in 1 .. Len(evalLog) : evalLog[i].fault # "evaluation"})
SuccessfulEvals == Cardinality({i \in 1 .. Len(evalLog) : evalLog[i].fault = "none"})

\* C2: every value passed to the progress callback lies in [0,1] and the
\* values never decrease; m_iteration is the stage's multiple of
\* maxIterations plus one per evaluation that reached IncrementIteration (so
\* one per successful evaluation), and in the crest stage 2*maxIterations
\* plus one per crest spoke visited in each of the two passes.
C2_ProgressMonotone ==
  /\ \A i \in 1 .. Len(progress) :
       /\ progress[i].den > 0
       /\ 0 <= progress[i].num /\ progress[i].num <= progress[i].den
       /\ i > 1 => progress[i - 1].num * progress[i].den <= progress[i].num * progress[i - 1].den
  /\ pc = "MinNewuoa" =>
       /\ m_iteration = (stageIdx - 1) * args.maxIterations + CountedEvals
       /\ m_iteration >= (stageIdx - 1) * args.maxIterations + SuccessfulEvals
  /\ pc = "CrestLength" => m_iteration = 2 * args.maxIterations + CrestVisited(cursor)
  /\ pc = "CrestCurvature" =>
       m_iteration = 2 * args.maxIterations + CrestVisited(NumPoints) + CrestVisited(cursor)
C2_Witness ==
  /\ pc = "done"
  /\ \E i \in 1 .. Len(progress) : progress[i].at = <<"eval", UpOrientation>>
  /\ \E i \in 1 .. Len(progress) : progress[i].at = <<"eval", DownOrientation>>
  /\ Len(progress) < 3 + 2 * args.maxIterations + 2 * args.lines

\* C3: when a run returns, the last value the callback received is exactly
\* 1.0 (numerator = m_totalProgressIterations = 2*maxIterations + 2*lines),
\* and a value was reported at the start of each of the three stages.
C3_ProgressEndsAtOne ==
  (pc = "done" /\ args.lines > 0) =>
    /\ Len(progress) > 0
    /\ progress[Len(progress)].num = progress[Len(progress)].den
    /\ progress[Len(progress)].num = m_totalProgressIterations
    /\ m_totalProgressIterations = 2 * args.maxIterations + 2 * args.lines
    /\ \A o \in Orientations : \E i \in 1 .. Len(progress) : progress[i].at = <<"start", o>>
C3_Witness == pc = "done" /\ args.lines = MaxLines /\ args.maxIterations = MaxIter

InvalidInput(a) ==
  \/ ~a.model \/ ~a.polyData
  \/ a.srepNode # "ok" \/ a.lines = 0
  \/ a.maxIterations < 1 \/ a.interpolationLevel < 0

\* C4: with a null model, null poly data, null s-rep node or s-rep, empty
\* s-rep, maxIterations < 1 or interpolationLevel < 0, Run (entered with a
\* scene) builds no master bounds, field or transform, evaluates nothing and
\* reports no progress, and the only way it ends is an invalid_argument.
C4_InvalidInputFailsFast ==
  (args.scene /\ InvalidInput(args)) =>
    /\ m_built = {}
    /\ progress = <<>> /\ evalLog = <<>> /\ nEvals = 0 /\ stageLog = <<>>
    /\ pc \in {"idle", "validate", "construct", "failed"}
    /\ pc = "failed" => error.kind = "invalid_argument"
C4_Witness ==
  /\ pc = "failed" /\ args.scene /\ args.model /\ ~args.polyData /\ args.srepNode = "ok"
  /\ args.lines > 0 /\ args.maxIterations >= 1 /\ args.interpolationLevel >= 0

\* C5: a call that fails after the placeholder node was added leaves the
\* scene with exactly the nodes it had before the call; a call that succeeds
\* leaves exactly one more node, the destination it returns.
C5_PlaceholderRollback ==
  /\ pc = "failed" => scene = SceneBefore
  /\ pc = "done" => /\ scene = SceneBefore \cup {destination}
                    /\ destination \notin SceneBefore
                    /\ Cardinality(scene) = Cardinality(SceneBefore) + 1
C5_Witness == pc = "failed" /\ destination = NewNode /\ error.site = "RefineCrestSpokes"

\* C6: no failure inside EvaluateObjectiveFunction reaches the minimizer: a
\* failed evaluation (in one of its computations or in the progress callback)
\* returned 1e10, no call ended with an exception raised by an evaluation,
\* and the minimizer stays free to evaluate again.
C6_EvaluationNeverThrows ==
  /\ \A i \in 1 .. Len(evalLog) : evalLog[i].fault # "none" => evalLog[i].value = Sentinel
  /\ error.site # "EvaluateObjectiveFunction"
  /\ Len(evalLog) > 0 => (pc = "MinNewuoa" /\ nEvals = Len(evalLog))
C6_Witness ==
  /\ Len(evalLog) >= 2
  /\ evalLog[1].fault = "callback"
  /\ evalLog[2].fault = "evaluation"

\* the spokes of orientation o of the live grid, by (line, step)
LiveSpokes(o) ==
  [k \in PointsOf(m_srep.lines, m_srep.steps) |-> SpokeAt(heap, m_srep, k[1], k[2], o)]

\* C7: while min_newuoa evaluates, the live grid keeps the value it had when
\* the stage started (every skeletal point and every up, down and crest
\* spoke), and two evaluations of the same coefficients in one pass
\* reconstruct the same candidate.
C7_EvaluationKeepsLiveGrid ==
  pc = "MinNewuoa" =>
    /\ GridValue(heap, m_srep) = stageBase[stageIdx]
    /\ \A i, j \in 1 .. Len(evalLog) :
         evalLog[i].coeff = evalLog[j].coeff => evalLog[i].candidate = evalLog[j].candidate
C7_Witness ==
  /\ pc = "MinNewuoa"
  /\ Len(evalLog) >= 2
  /\ evalLog[1].coeff = evalLog[2].coeff
  /\ evalLog[1].candidate # LiveSpokes(CurrentType)

\* C8: from its construction to the end of the run the live grid has the
\* line count and step count of the caller's grid, and so has the grid set on
\* the destination node.
C8_DimensionsPreserved ==
  /\ pc \in {"run", "MinNewuoa", "CrestLength", "CrestCurvature", "done"} =>
       /\ m_srep.lines = args.lines /\ m_srep.steps = args.steps
       /\ DOMAIN m_srep.sp = SlotsOf(args.lines, args.steps)
  /\ pc = "done" =>
       /\ destSRep.lines = args.lines /\ destSRep.steps = args.steps
       /\ DOMAIN destSRep.sp = SlotsOf(args.lines, args.steps)
C8_Witness == pc = "done" /\ destSRep.lines = MaxLines /\ destSRep.steps = MaxSteps

\* C9: every spoke of the caller's grid keeps its value through the call,
\* whether the call succeeds or fails, and through later changes of the
\* returned grid; the returned grid shares no spoke with the caller's grid.
C9_InputGridUnchanged ==
  /\ GridValue(heap, InputSRep) = GridValue(InputHeap(args.lines, args.steps), InputSRep)
  /\ \A k \in Slots(destSRep) : destSRep.sp[k][1] # "input"
C9_Witness ==
  /\ pc = "done" /\ callerMutated
  /\ GridValue(heap, destSRep) # GridValue(heap, InputSRep)

\* C10: the commit of RefineUp leaves every down and crest spoke of the live
\* grid as it was when the pass started, and the commit of RefineDown leaves
\* every up and crest spoke as it was when that pass started.
C10_CommitTouchesOneOrientation ==
  /\ Len(stageBase) >= 2 =>
       \A k \in DOMAIN stageBase[1] : k[3] # UpOrientation => stageBase[2][k] = stageBase[1][k]
  /\ Len(stageBase) >= 3 =>
       \A k \in DOMAIN stageBase[2] : k[3] # DownOrientation => stageBase[3][k] = stageBase[2][k]
C10_Witness ==
  /\ Len(stageBase) = 3
  /\ \E k \in DOMAIN stageBase[1] : k[3] = UpOrientation /\ stageBase[2][k] # stageBase[1][k]
  /\ \E k \in DOMAIN stageBase[2] : k[3] = DownOrientation /\ stageBase[3][k] # stageBase[2][k]

\* the signed distance of the crest spoke's boundary point at the first query
FirstDist == ImplicitDistance(GetBoundaryPoint(crestLoop.first), crestLoop.surfX)

\* C12: a crest spoke whose boundary point is on the surface at the first
\* query (|signed distance| <= epsilon) keeps its radius, direction and
\* skeletal point through the length-correction loop, whatever maxIter and
\* the step size are.
C12_OnSurfaceSpokeUnchanged ==
  Abs(FirstDist) <= Epsilon =>
    /\ crestLoop.spoke = crestLoop.first
    /\ GetRadius(crestLoop.spoke) = GetRadius(crestLoop.first)
    /\ crestLoop.i = 0
C12_Witness ==
  /\ crestLoop.pc = "done"
  /\ Abs(FirstDist) = Epsilon
  /\ crestLoop.maxIter = MaxIter
  /\ crestLoop.stepSize > GetRadius(crestLoop.first)

\* C13: the radius of a spoke is >= 0 in every state of a run that starts
\* from radii >= 0, in particular after every step of the crest
\* length-correction loop, which sets the radius to the old radius minus the
\* step size when the boundary point is outside the surface.
C13_RadiusNonNegative ==
  GetRadius(crestLoop.first) >= 0 =>
    /\ crestLoop.radius >= 0
    /\ VecUnit(GetDirection(crestLoop.spoke)) = VecUnit(GetDirection(crestLoop.first))

\* C20: an iteration of the crest loop that does not stop changes the radius
\* by exactly the current step size (down when the signed distance is
\* positive, up when it is negative) and leaves the direction and the
\* skeletal point alone; the step size starts at initialRegionSize and is
\* divided by 10 exactly when the signed distance changes sign between two
\* consecutive queries.
C20_CrestStepRule ==
  [][crestLoop'.i = crestLoop.i + 1 =>
       /\ crestLoop.i = 0 => crestLoop.thisStepSize = crestLoop.stepSize
       /\ GetRadius(crestLoop'.spoke) =
            IF crestLoop.dist > 0 THEN GetRadius(crestLoop.spoke) - crestLoop.thisStepSize
            ELSE GetRadius(crestLoop.spoke) + crestLoop.thisStepSize
       /\ VecUnit(GetDirection(crestLoop'.spoke)) = VecUnit(GetDirection(crestLoop.spoke))
       /\ crestLoop'.spoke.skel = crestLoop.spoke.skel
       /\ crestLoop'.thisStepSize =
            IF Sign(crestLoop.dist) * Sign(crestLoop'.dist) < 0
            THEN crestLoop.thisStepSize \div 10 ELSE crestLoop.thisStepSize]_vars

\* C14: every radius Refine reconstructs, exp(4th coefficient) x old radius,
\* is strictly greater than 0 (never exactly 0, never negative), for every
\* coefficient, large negative ones included, and every base grid.
C14_RadiusPositive ==
  refineCall.pc = "computed" => refineCall.newRadius.k \in {"pos", "inf"}

\* the points that exist
ExistingPoints == {points.obj[n] : n \in {m \in PointVariables : points.obj[m].exists}}
HasNaN(p) == IsNaN(p.X) \/ IsNaN(p.Y) \/ IsNaN(p.Z)

\* C15: no Point3d holds a NaN: a construction or a SetX/SetY/SetZ with a
\* NaN throws invalid_argument and leaves every existing point as it was,
\* one without a NaN never throws, so after every operation all existing
\* points have three non-NaN coordinates.
C15_NoNaNPoint ==
  [][/\ \A n \in PointVariables : points'.obj[n].exists => ~HasNaN(points'.obj[n])
     /\ points'.last.nanArg <=> points'.last.thrown = "invalid_argument"
     /\ ~points'.last.nanArg <=> points'.last.thrown = "none"
     /\ points'.last.thrown # "none" => points'.obj = points.obj]_vars
C15_Witness ==
  /\ points.last = [op |-> "Set", nanArg |-> TRUE, thrown |-> "invalid_argument"]
  /\ \A n \in PointVariables : points.obj[n].exists /\ ~HasNaN(points.obj[n])
  /\ points.obj["a"] # points.obj["b"]

\* C16: on the points that exist, exactly one of a<b, a==b, b<a holds, < is
\* transitive, a==b holds exactly when the three coordinates are equal, and
\* !=, >, <=, >= are the negation of ==, < mirrored, not >, not <.
C16_LexicographicTotalOrder ==
  \A a \in ExistingPoints, b \in ExistingPoints :
    /\ Cardinality({r \in {"lt", "eq", "gt"} :
                       \/ r = "lt" /\ PointLess(a, b)
                       \/ r = "eq" /\ PointEqual(a, b)
                       \/ r = "gt" /\ PointLess(b, a)}) = 1
    /\ \A c \in ExistingPoints : (PointLess(a, b) /\ PointLess(b, c)) => PointLess(a, c)
    /\ PointEqual(a, b) <=> (a.X = b.X /\ a.Y = b.Y /\ a.Z = b.Z)
    /\ PointLess(a, b) <=>
         \/ a.X.v < b.X.v
         \/ a.X.v = b.X.v /\ a.Y.v < b.Y.v
         \/ a.X.v = b.X.v /\ a.Y.v = b.Y.v /\ a.Z.v < b.Z.v
    /\ PointNotEqual(a, b) <=> ~PointEqual(a, b)
    /\ PointGreater(a, b) <=> PointLess(b, a)
    /\ PointLessEqual(a, b) <=> ~PointLess(b, a)
    /\ PointGreaterEqual(a, b) <=> ~PointLess(a, b)
C16_Witness ==
  /\ \A n \in PointVariables : points.obj[n].exists
  /\ PointLess(points.obj["a"], points.obj["b"]) /\ PointLess(points.obj["b"], points.obj["c"])
  /\ points.obj["a"].X = points.obj["b"].X /\ points.obj["a"].Y = points.obj["b"].Y
  /\ points.obj["b"].X = points.obj["c"].X /\ points.obj["b"].Y # points.obj["c"].Y

\* the longest of the three ranges
LongestRange(bounds) ==
  CHOOSE m \in {Range(bounds)[i] : i \in 1 .. 3} : \A i \in 1 .. 3 : Range(bounds)[i] <= m

\* C17: for bounds with three positive ranges, the new bounds and the matrix
\* map the longest axis onto exactly [0,1] and every other axis onto an
\* interval centred at 0.5 whose length is its range divided by the longest
\* range, also when ranges tie, and every mapped interval lies in [0,1].
C17_BoundsNormalized ==
  (fieldCall.pc = "returned" /\ fieldCall.transform
   /\ \A i \in 1 .. 3 : Range(fieldCall.bounds)[i] > 0) =>
    \A i \in 1 .. 3 :
      LET lo == fieldCall.newBounds[i][1]
          hi == fieldCall.newBounds[i][2]
          range == Range(fieldCall.bounds)[i]
      IN /\ FracEq(FracSub(hi, lo), <<range, LongestRange(fieldCall.bounds)>>)
         /\ FracEq(FracAdd(lo, hi), FromInt(1))
         /\ range = LongestRange(fieldCall.bounds) =>
              FracEq(lo, FromInt(0)) /\ FracEq(hi, FromInt(1))
         /\ FracLeq(FromInt(0), lo) /\ FracLeq(hi, FromInt(1))
         /\ FracEq(MultiplyPoint(fieldCall.mat, i, fieldCall.bounds[2 * i - 1]), lo)
         /\ FracEq(MultiplyPoint(fieldCall.mat, i, fieldCall.bounds[2 * i]), hi)
         /\ FracEq(fieldCall.newPts[1][i], lo) /\ FracEq(fieldCall.newPts[2][i], hi)
C17_Witness ==
  /\ fieldCall.pc = "returned" /\ fieldCall.transform
  /\ Range(fieldCall.bounds) = <<2, 4, 4>>
  /\ FracEq(fieldCall.newBounds[1][1], <<1, 4>>) /\ FracEq(fieldCall.newBounds[1][2], <<3, 4>>)

\* C18: with a null mesh or degenerate bounds (a range <= 0) the construction
\* of the distance field ends with an invalid-argument error, no volume is
\* allocated, nothing is returned and nothing is divided by a zero range.
C18_DegenerateInputRejected ==
  (fieldCall.pc # "call"
   /\ (~fieldCall.polydata \/ \E i \in 1 .. 3 : Range(fieldCall.bounds)[i] <= 0)) =>
    /\ fieldCall.pc = "thrown" /\ fieldCall.thrown = "invalid_argument"
    /\ ~fieldCall.allocated
    /\ 0 \notin fieldCall.divisors

\* C19: the grid ConvertEigenSRepToEllipticalSRep returns has numFoldPoints
\* rows of numStepsToCrest + 1 skeletal points; every skeletal point has an
\* up and a down spoke anchored at one skeletal position, the one of its row
\* of the EigenSRep; it has a crest spoke iff its step is numStepsToCrest.
C19_CreatedGridShape ==
  creator.pc = "returned" =>
    /\ Len(creator.grid) = creator.eigenSRep.numFoldPoints
    /\ \A l \in 1 .. Len(creator.grid) :
         /\ Len(creator.grid[l]) = creator.eigenSRep.numStepsToCrest + 1
         /\ \A st \in 1 .. Len(creator.grid[l]) :
              LET sp == creator.grid[l][st]
              IN /\ sp.up.alloc /\ sp.down.alloc
                 /\ sp.up.skel = sp.down.skel
                 /\ sp.up.skel = <<10 * (l - 1), 10 * (st - 1), 0>>
                 /\ sp.crest.alloc <=> (st - 1 = creator.eigenSRep.numStepsToCrest)
C19_Witness ==
  /\ creator.pc = "returned"
  /\ Len(creator.grid) = MaxFoldPoints
  /\ Len(creator.grid[MaxFoldPoints]) = MaxStepsToCrest + 1

\* C21: the crest length-correction pass terminates; each crest spoke gets
\* at most maxIter radius updates, and none once the absolute signed distance
\* is <= epsilon; the pass enters the loop once for every crest skeletal point
\* and never for another point, whose spokes (like the up and down spokes of
\* the crest points) are as they were.
C21_CrestPassTerminates ==
  /\ [][/\ crestPass'.i <= crestPass'.maxIter
        /\ (crestPass.pc = "for" /\ crestPass'.grid # crestPass.grid) =>
             /\ crestPass'.i = crestPass.i + 1
             /\ Abs(crestPass.dist) > Epsilon
        /\ (crestPass.pc = "for" /\ Abs(crestPass.dist) <= Epsilon) =>
             crestPass'.pc # "for"
        /\ \A pt \in DOMAIN crestPass.grid :
             /\ crestPass'.incremented[pt] <= 1
             /\ crestPass'.grid[pt].up = crestPass.base[pt].up
             /\ crestPass'.grid[pt].down = crestPass.base[pt].down
             /\ ~crestPass.base[pt].crest.alloc =>
                  /\ crestPass'.incremented[pt] = 0
                  /\ crestPass'.grid[pt] = crestPass.base[pt]
             /\ (crestPass'.pc = "returned" /\ crestPass.base[pt].crest.alloc) =>
                  crestPass'.incremented[pt] = 1]_vars
  /\ <>(crestPass.pc = "returned")
C21_Witness ==
  /\ crestPass.pc = "returned"
  /\ crestPass.lines = MaxLines /\ crestPass.steps = MaxSteps
  /\ crestPass.maxIter = MaxIter
  /\ \A l \in 0 .. MaxLines - 1 :
       crestPass.grid[<<l, MaxSteps - 1>>].crest # crestPass.base[<<l, MaxSteps - 1>>].crest

\* the target radius of the crest spoke of line l, when it is finite: the
\* smaller of the two radii of curvature
HasTarget(l) == crestPass.curv[l][1][1] # 0 \/ crestPass.curv[l][2][1] # 0
Target(l) ==
  LET a == crestPass.curv[l][1]
      b == crestPass.curv[l][2]
  IN IF a[1] = 0 THEN b[2] \div Abs(b[1])
     ELSE IF b[1] = 0 THEN a[2] \div Abs(a[1])
     ELSE IF a[2] * Abs(b[1]) <= b[2] * Abs(a[1]) THEN a[2] \div Abs(a[1])
     ELSE b[2] \div Abs(b[1])
\* the points of crestPass the loops have passed
Passed(pt) ==
  \/ crestPass.pc = "returned"
  \/ pt[1] < crestPass.l
  \/ pt[1] = crestPass.l /\ pt[2] < crestPass.s

\* C22: with target = 1 / max(|maxCurvature|, |minCurvature|), a crest spoke
\* of radius <= target (or with no finite target) is left unchanged by the
\* curvature correction; one of radius > target has its skeletal point moved
\* along its unit direction by radius - target and its radius set to target;
\* after the pass every crest radius is <= its target; up and down spokes
\* are untouched.
C22_CurvatureCorrection ==
  \A pt \in DOMAIN crestPass.grid :
    LET before == crestPass.base[pt].crest
        after == crestPass.grid[pt].crest
    IN /\ crestPass.grid[pt].up = crestPass.base[pt].up
       /\ crestPass.grid[pt].down = crestPass.base[pt].down
       /\ (before.alloc /\ Passed(pt)) =>
            IF HasTarget(pt[1]) /\ GetRadius(before) > Target(pt[1])
            THEN /\ after.skel = VecAdd(before.skel,
                                        VecScale(VecUnit(before.dir),
                                                 GetRadius(before) - Target(pt[1])))
                 /\ GetRadius(after) = Target(pt[1])
                 /\ VecUnit(after.dir) = VecUnit(before.dir)
            ELSE after = before
       /\ ~(before.alloc /\ Passed(pt)) => after = before
C22_Witness ==
  /\ crestPass.pc = "returned"
  /\ crestPass.lines = MaxLines
  /\ \E l \in 0 .. MaxLines - 1 :
       LET pt == <<l, crestPass.steps - 1>>
       IN /\ HasTarget(l)
          /\ GetRadius(crestPass.base[pt].crest) > Target(l)
          /\ GetRadius(crestPass.grid[pt].crest) = Target(l)
  /\ \E l \in 0 .. MaxLines - 1 :
       LET pt == <<l, crestPass.steps - 1>>
       IN /\ HasTarget(l)
          /\ GetRadius(crestPass.base[pt].crest) <= Target(l)
          /\ crestPass.grid[pt].crest = crestPass.base[pt].crest

\* C28: the curvature correction never moves the boundary point of a crest
\* spoke: skeletal point + direction is the same before and after it,
\* whether or not the spoke was shortened.
C28_BoundaryPointKept ==
  \A pt \in DOMAIN crestPass.grid :
    crestPass.base[pt].crest.alloc =>
      GetBoundaryPoint(crestPass.grid[pt].crest) = GetBoundaryPoint(crestPass.base[pt].crest)
C28_Witness ==
  /\ crestPass.pc = "returned"
  /\ \E pt \in DOMAIN crestPass.grid :
       /\ crestPass.base[pt].crest.alloc
       /\ GetRadius(crestPass.grid[pt].crest) < GetRadius(crestPass.base[pt].crest)
       /\ crestPass.grid[pt].crest.skel # crestPass.base[pt].crest.skel

\* the vector encodes, for every skeletal point of the live grid in
\* line-major then step order, the unit direction of its spoke of
\* orientation o followed by 0
Encodes(vector, o) ==
  /\ Len(vector) = 4 * refineCall.m_srep.lines * refineCall.m_srep.steps
  /\ \A k \in PointsOf(refineCall.m_srep.lines, refineCall.m_srep.steps) :
       LET c == 4 * (k[1] * refineCall.m_srep.steps + k[2])
           spoke == SpokeAt(refineCall.heap, refineCall.m_srep, k[1], k[2], o)
       IN /\ <<vector[c + 1], vector[c + 2], vector[c + 3]>> = VecUnit(GetDirection(spoke))
          /\ vector[c + 4] = 0
\* the grid rebuilt at the first evaluation has the live grid's spokes of
\* orientation o
CandidateIsLive(o) ==
  \A k \in PointsOf(refineCall.m_srep.lines, refineCall.m_srep.steps) :
    refineCall.candidate[k] = SpokeAt(refineCall.heap, refineCall.m_srep, k[1], k[2], o)

\* C23: the initial coefficient vector of each orientation has 4 entries per
\* skeletal point, line-major then step (the unit direction, then 0), so
\* 4 x lines x steps entries; Refine with the initial vector of an
\* orientation rebuilds a grid whose spokes of that orientation are those of
\* the base grid.
C23_InitialCoefficientsIdentity ==
  /\ (refineCall.stage = 1 /\ refineCall.pc \in {"RefineSpokes", "min_newuoa"}) =>
       /\ Encodes(refineCall.m_flattenedUpCoeff, UpOrientation)
       /\ Encodes(refineCall.m_flattenedDownCoeff, DownOrientation)
  /\ (refineCall.stage = 1 /\ refineCall.pc = "min_newuoa") => CandidateIsLive(UpOrientation)
C23_Witness ==
  /\ refineCall.stage = 1 /\ refineCall.pc = "min_newuoa"
  /\ refineCall.m_srep.lines = MaxLines /\ refineCall.m_srep.steps = MaxSteps
  /\ Len(refineCall.m_flattenedUpCoeff) = 4 * MaxLines * MaxSteps
  /\ \E k \in DOMAIN refineCall.candidate :
       VecUnit(refineCall.candidate[k].dir) # VecUnit(refineCall.candidate[<<0, 0>>].dir)

\* C29: at the start of RefineDown, after the up pass has been committed,
\* the down coefficient vector computed at construction still encodes the
\* live grid's down spokes, point by point in the same order with 4th entry
\* 0, and Refine reads for each skeletal point the entries written for it:
\* the grid it rebuilds from that vector has the live grid's down spokes.
C29_DownCoefficientsStayConsistent ==
  /\ (refineCall.stage = 2 /\ refineCall.pc \in {"RefineSpokes", "min_newuoa"}) =>
       Encodes(refineCall.m_flattenedDownCoeff, DownOrientation)
  /\ (refineCall.stage = 2 /\ refineCall.pc = "min_newuoa") => CandidateIsLive(DownOrientation)
C29_Witness ==
  /\ refineCall.stage = 2 /\ refineCall.pc = "min_newuoa"
  /\ refineCall.changed
  /\ refineCall.m_srep.lines = MaxLines /\ refineCall.m_srep.steps = MaxSteps
  /\ ~Encodes(refineCall.m_flattenedUpCoeff, UpOrientation)

\* C24: every voxel index at which the distance field and the gradient
\* field are sampled is inside the volume, also for a boundary point outside
\* the master bounds: each index lies in [0, dim - 1], the clamp's upper
\* bound round(1/spacing) - 1 being at most the last index of the volume of
\* int(1/spacing) voxels per axis.
C24_SampleIndexInVolume ==
  sampling.pc = "sampled" =>
    \A i \in 1 .. 3 :
      /\ 0 <= sampling.pixelIndex[i]
      /\ sampling.pixelIndex[i] <= sampling.dim[i] - 1
C24_Witness ==
  /\ sampling.pc = "sampled"
  /\ sampling.transformedBoundaryArray[1][1] < 0 /\ sampling.pixelIndex[1] = 0
  /\ FracLeq(FromInt(3), sampling.transformedBoundaryArray[2])
  /\ sampling.pixelIndex[2] = sampling.dim[2] - 1
  /\ sampling.pixelIndex[3] \in 1 .. sampling.dim[3] - 2

\* C25: the neighbours ComputeRSradDerivatives reads are valid grid indices:
\* for line in [0, n) and step in [0, m) the line neighbours are
\* (n + line - 1) mod n and (line + 1) mod n (wrapping, also for n = 1), the
\* step neighbours are step - 1 and step + 1 clamped to [0, m - 1], and the
\* divisor along the steps is 2 exactly when both step neighbours differ
\* from the step, 1 at step 0 and at step m - 1.
C25_NeighboursValid ==
  rsrad.pc = "returned" =>
    LET n == rsrad.numLines
        m == rsrad.numSteps
        r == rsrad.read
    IN /\ r.prevLine \in 0 .. n - 1 /\ r.nextLine \in 0 .. n - 1
       /\ r.prevLine = (IF rsrad.line = 0 THEN n - 1 ELSE rsrad.line - 1)
       /\ r.nextLine = (IF rsrad.line = n - 1 THEN 0 ELSE rsrad.line + 1)
       /\ r.prevStep \in 0 .. m - 1 /\ r.nextStep \in 0 .. m - 1
       /\ r.prevStep = (IF rsrad.step - 1 < 0 THEN 0 ELSE rsrad.step - 1)
       /\ r.nextStep = (IF rsrad.step + 1 > m - 1 THEN m - 1 ELSE rsrad.step + 1)
       /\ r.divisor = 2 <=> (r.prevStep # rsrad.step /\ r.nextStep # rsrad.step)
       /\ (rsrad.step = 0 \/ rsrad.step = m - 1) => r.divisor = 1
       /\ r.divisor \in {1, 2}
C25_Witness ==
  /\ rsrad.pc = "returned"
  /\ rsrad.numLines > 2 /\ rsrad.line = rsrad.numLines - 1 /\ rsrad.read.nextLine = 0
  /\ rsrad.numSteps > 2 /\ rsrad.step = 1 /\ rsrad.read.divisor = 2

\* C27: ComputeRSradPenalty visits exactly the positions
\* (i * density, j * density), density = 2^interpolationLevel; each is a
\* valid index of the interpolated grid; every node of the base grid, every
\* line and every step with the crest step, is one visited position; the
\* penalty of an empty grid is 0 and no contribution is negative.
C27_PenaltyAtPrimaryNodes ==
  /\ rsrad.contribution >= 0
  /\ \A k \in 1 .. Len(rsrad.visited) :
       /\ rsrad.visited[k][1] \in 0 .. rsrad.interpolatedSRep.lines - 1
       /\ rsrad.visited[k][2] \in 0 .. rsrad.interpolatedSRep.steps - 1
       /\ rsrad.visited[k][1] % Pow(2, rsrad.m_interpolationLevel) = 0
       /\ rsrad.visited[k][2] % Pow(2, rsrad.m_interpolationLevel) = 0
       /\ \A k2 \in 1 .. Len(rsrad.visited) : rsrad.visited[k2] = rsrad.visited[k] => k2 = k
  /\ rsrad.pc = "returned" =>
       /\ rsrad.lines = 0 => rsrad.penalty = 0
       /\ \A l \in 0 .. rsrad.lines - 1, st \in 0 .. rsrad.steps - 1 :
            \E k \in 1 .. Len(rsrad.visited) :
              rsrad.visited[k] = <<l * Pow(2, rsrad.m_interpolationLevel),
                                   st * Pow(2, rsrad.m_interpolationLevel)>>

\* C26: for bounds with positive ranges, ties between ranges included, the
\* matrix of CreateBoundsToImageCoordsTransform and the remapping of the mesh
\* points in ConvertPolyDataToImageData are one map: the same axes are sent
\* onto [0,1], and a point of the bounds (each corner, a point inside, and a
\* point outside as well) gets the same normalized coordinates from both.
C26_TransformMatchesRemap ==
  (fieldCall.pc = "returned" /\ fieldCall.transform
   /\ \A i \in 1 .. 3 : Range(fieldCall.bounds)[i] > 0) =>
    \A i \in 1 .. 3 :
      LET range == Range(fieldCall.bounds)[i]
          lower == fieldCall.bounds[2 * i - 1]
      IN /\ FracEq(FracMul(fieldCall.mat[i].scale, FromInt(range)), FromInt(1))
              <=> FracEq(FracSub(fieldCall.newBounds[i][2], fieldCall.newBounds[i][1]),
                         FromInt(1))
         /\ \A c \in 1 .. 2 :
              FracEq(MultiplyPoint(fieldCall.mat, i, fieldCall.bounds[2 * i - 2 + c]),
                     fieldCall.newPts[c][i])
         /\ \A v \in {lower - 3, lower + 1, lower + range + 2} :
              FracEq(MultiplyPoint(fieldCall.mat, i, v),
                     TransformMeshCoordinate(fieldCall.bounds, fieldCall.newBounds, i, v))
C26_Witness ==
  /\ fieldCall.pc = "returned" /\ fieldCall.transform
  /\ Range(fieldCall.bounds) = <<1, 4, 4>>
  /\ FracEq(MultiplyPoint(fieldCall.mat, 1, fieldCall.bounds[1]), <<3, 8>>)
  /\ FracEq(fieldCall.newPts[2][1], <<5, 8>>)
  /\ FracEq(fieldCall.newPts[2][3], FromInt(1))

\* C30: RunForward never propagates an error to its caller: a failure in
\* the flow of the mesh, the fit of the ellipsoid, the generation of the
\* s-rep or the creation of a node makes it return false; with a null model,
\* a missing temporary folder or missing curvature or normals it returns
\* false and has created neither the ellipsoid node nor the s-rep node; it
\* returns true only with the flow, the fit and the generation completed.
C30_RunForwardReportsFailure ==
  /\ runForward.pc # "terminated"
  /\ runForward.pc = "returned" =>
       /\ runForward.result \in {"true", "false"}
       /\ runForward.failed # {} => runForward.result = "false"
       /\ runForward.failed \cap {"model", "tempFolder", "curvature"} # {} =>
            runForward.nodes \cap {EllipsoidNode, SRepNode} = {}
       /\ runForward.result = "true" =>
            {"flow", "fit", "generate"} \subseteq runForward.completed

====
